---- MODULE Spec2Model ----
(***************************************************************************)
(* TDF (Test Data Factory): generation planning and row synthesis.         *)
(*                                                                         *)
(*   toposort          src/tdf/src/types/scenario.ts  (util/toposort.ts)   *)
(*   buildPlan         src/tdf/src/core/plan.ts                            *)
(*   generateRows      src/unnamed/part_000           (core/generate_rows) *)
(*   rng helpers       src/unnamed/part_001           (util/rng.ts)        *)
(*   constraints       src/tdf/src/models/schema.ts   (util/constraints)   *)
(***************************************************************************)
EXTENDS Integers, Sequences, FiniteSets, TLC

VARIABLES
  topo,         \* toposort's locals (the Graph Orderer run on its own)
  inp,          \* the schema and scenario documents of the run
  now,          \* the wall clock of the run
  pc,           \* where the run is: start, plan, gen, rows, done, failed
  plan,         \* the GenerationPlan being built: seed, tableOrder, tablePlans
  rowCounts,    \* buildPlan's rowCounts map
  pidx,         \* buildPlan's position in tableOrder
  data,         \* generateRows' data map
  primaryKeys,  \* generateRows' primaryKeys map
  gidx,         \* generateRows' position in tableOrder
  cur,          \* generateRows' loop state for the current table
  err,          \* the Error thrown, "" when none
  warnings,     \* the console.warn messages
  rngv,         \* the seeded generators: which run this is, the draws made
  first,        \* the outcome of the first of two runs
  out,          \* what the generate command has received and written
  fx,           \* fixRelationalConstraints' row, constraints and position
  call          \* the locals of a library function called on its own

topoVars == <<topo>>
pipeVars == <<inp, now, pc, plan, rowCounts, pidx, data, primaryKeys, gidx, cur, err,
              warnings, rngv, first, out>>
vars == <<topo, inp, now, pc, plan, rowCounts, pidx, data, primaryKeys, gidx, cur, err,
          warnings, rngv, first, out, fx, call>>

(***************************************************************************)
(* Generic helpers                                                         *)
(***************************************************************************)
Range(s) == {s[i] : i \in 1..Len(s)}

Distinct(s) == \A i, j \in 1..Len(s) : i # j => s[i] # s[j]

Includes(s, x) == \E i \in 1..Len(s) : s[i] = x

\* Position of the first occurrence of x in s (0 when absent)
IndexOf(s, x) == IF Includes(s, x) THEN CHOOSE i \in 1..Len(s) : s[i] = x /\ \A j \in 1..(i - 1) : s[j] # x ELSE 0

SeqsUpTo(S, n) == UNION {[1..k -> S] : k \in 0..n}

(***************************************************************************)
(* Graph Orderer: toposort(tables, edges)                                  *)
(***************************************************************************)
Names == {"a", "b", "c"}

MaxEdges == 3

EdgeSet == [from : Names, to : Names]

\* lines 27-34: inDegree and adjacency initialised for every table
TopoInit(tables, edges) ==
  [tables |-> tables, edges |-> edges, i |-> 1,
   inDegree |-> [t \in Range(tables) |-> 0],
   adjacency |-> [t \in Range(tables) |-> <<>>],
   queue |-> <<>>, result |-> <<>>, remaining |-> <<>>, pc |-> "build"]

\* mutant: the edge is recorded in the wrong direction
TopoAddEdgeReversed(s) ==
  LET e == s.edges[s.i] IN
  IF ~Includes(s.tables, e.from) \/ ~Includes(s.tables, e.to) \/ e.from = e.to
    THEN [s EXCEPT !.i = @ + 1]
    ELSE [s EXCEPT !.i = @ + 1,
                   !.adjacency[e.from] = Append(@, e.to),
                   !.inDegree[e.to] = @ + 1]

\* lines 39-45: one iteration of the edge loop
TopoAddEdge(s) ==
  LET e == s.edges[s.i] IN
  IF ~Includes(s.tables, e.from) \/ ~Includes(s.tables, e.to) \/ e.from = e.to
    THEN [s EXCEPT !.i = @ + 1]
    ELSE [s EXCEPT !.i = @ + 1,
                   !.adjacency[e.to] = Append(@, e.from),
                   !.inDegree[e.from] = @ + 1]

\* lines 48-53: the queue starts with the zero in-degree tables, in Map
\* insertion order (the order of the table list)
TopoSeed(s) ==
  [s EXCEPT !.queue = SelectSeq(s.tables, LAMBDA t : s.inDegree[t] = 0),
            !.pc = "kahn"]

\* lines 60-66: the inner loop over the neighbours of the table just emitted
RECURSIVE TopoRelease(_, _, _)
TopoRelease(neighbors, inDeg, q) ==
  IF neighbors = <<>> THEN [inDegree |-> inDeg, queue |-> q]
  ELSE LET n == Head(neighbors)
           newDegree == inDeg[n] - 1
       IN TopoRelease(Tail(neighbors), [inDeg EXCEPT ![n] = newDegree],
                      IF newDegree = 0 THEN Append(q, n) ELSE q)

\* mutant: the queue is used as a stack (pop instead of shift)
TopoDequeueLifo(s) ==
  LET current == s.queue[Len(s.queue)]
      r == TopoRelease(s.adjacency[current], s.inDegree, SubSeq(s.queue, 1, Len(s.queue) - 1))
  IN [s EXCEPT !.result = Append(@, current),
               !.inDegree = r.inDegree,
               !.queue = r.queue]

\* lines 56-67: one iteration of the while loop
TopoDequeue(s) ==
  LET current == Head(s.queue)
      r == TopoRelease(s.adjacency[current], s.inDegree, Tail(s.queue))
  IN [s EXCEPT !.result = Append(@, current),
               !.inDegree = r.inDegree,
               !.queue = r.queue]

\* mutant: the cycle check is dropped
TopoFinishNoCheck(s) == [s EXCEPT !.pc = "done"]

\* lines 69-77: the cycle check and the return
TopoFinish(s) ==
  IF Len(s.result) # Len(s.tables)
    THEN [s EXCEPT !.pc = "error",
                   !.remaining = SelectSeq(s.tables, LAMBDA t : ~Includes(s.result, t))]
    ELSE [s EXCEPT !.pc = "done"]

TopoStep(s) ==
  CASE s.pc = "build" /\ s.i <= Len(s.edges) -> TopoAddEdge(s)
    [] s.pc = "build" /\ s.i > Len(s.edges) -> TopoSeed(s)
    [] s.pc = "kahn" /\ s.queue # <<>> -> TopoDequeue(s)
    [] s.pc = "kahn" /\ s.queue = <<>> -> TopoFinish(s)
    [] OTHER -> s

RECURSIVE TopoRun(_)
TopoRun(s) == IF s.pc \in {"done", "error"} THEN s ELSE TopoRun(TopoStep(s))

\* toposort as a function: .pc = "done" with .result, or .pc = "error" with
\* .remaining (the tables named in the thrown Error)
toposort(tables, edges) == TopoRun(TopoInit(tables, edges))

TableLists == {s \in SeqsUpTo(Names, Cardinality(Names)) : Distinct(s)}

\* the pipeline is not running
PipeIdle ==
  /\ inp = <<>> /\ now = 0 /\ pc = "idle" /\ plan = <<>> /\ rowCounts = <<>>
  /\ pidx = 0 /\ data = <<>> /\ primaryKeys = <<>> /\ gidx = 0 /\ cur = <<>>
  /\ err = "" /\ warnings = <<>> /\ rngv = <<>> /\ first = <<>> /\ out = <<>>

InitTopo == /\ \E tables \in TableLists, edges \in SeqsUpTo(EdgeSet, MaxEdges) :
                 topo = TopoInit(tables, edges)
            /\ PipeIdle
            /\ fx = <<>>
            /\ call = <<>>

AddEdge == /\ topo.pc = "build" /\ topo.i <= Len(topo.edges)
           /\ topo' = TopoAddEdge(topo)
           /\ UNCHANGED <<pipeVars, fx, call>>

SeedQueue == /\ topo.pc = "build" /\ topo.i > Len(topo.edges)
             /\ topo' = TopoSeed(topo)
             /\ UNCHANGED <<pipeVars, fx, call>>

Dequeue == /\ topo.pc = "kahn" /\ topo.queue # <<>>
           /\ topo' = TopoDequeue(topo)
           /\ UNCHANGED <<pipeVars, fx, call>>

Finish == /\ topo.pc = "kahn" /\ topo.queue = <<>>
          /\ topo' = TopoFinish(topo)
          /\ UNCHANGED <<pipeVars, fx, call>>

NextTopo == AddEdge \/ SeedQueue \/ Dequeue \/ Finish

SpecTopo == InitTopo /\ [][NextTopo]_vars

(***************************************************************************)
(* Graph vocabulary used by the ordering claims                            *)
(***************************************************************************)
\* the dependency relation toposort is given: from -> to, both in the table
\* list, self-edges ignored
DepEdges(s) == {e \in Range(s.edges) : /\ e.from # e.to
                                       /\ Includes(s.tables, e.from)
                                       /\ Includes(s.tables, e.to)}

\* a cycle: distinct tables c[1] -> c[2] -> ... -> c[k] -> c[1]
IsCycle(c, E) == /\ Len(c) >= 2
                 /\ Distinct(c)
                 /\ \A i \in 1..Len(c) :
                      [from |-> c[i], to |-> c[(i % Len(c)) + 1]] \in E

Cycles(s) == {c \in SeqsUpTo(Names, Cardinality(Names)) : IsCycle(c, DepEdges(s))}

IsPermutationOf(r, t) == /\ Len(r) = Len(t)
                         /\ Range(r) = Range(t)
                         /\ Distinct(r)

\* C1: for an acyclic dependency graph (self-edges ignored) toposort returns a
\* permutation of the table list in which every referenced table precedes
\* every table referencing it.
C1_TopoOrder ==
  (topo.pc \in {"done", "error"} /\ Cycles(topo) = {}) =>
     /\ topo.pc = "done"
     /\ IsPermutationOf(topo.result, topo.tables)
     /\ \A e \in DepEdges(topo) :
          IndexOf(topo.result, e.to) < IndexOf(topo.result, e.from)

C1_Witness ==
  /\ topo.pc = "done"
  /\ Len(topo.tables) = 3
  /\ Cardinality(DepEdges(topo)) >= 2
  /\ topo.result # topo.tables

\* C2: when the dependency graph has a cycle toposort throws instead of
\* returning, and the tables named in the error include every table of at
\* least one cycle.
C2_CycleError ==
  (topo.pc \in {"done", "error"} /\ Cycles(topo) # {}) =>
     /\ topo.pc = "error"
     /\ \E c \in Cycles(topo) : Range(c) \subseteq Range(topo.remaining)

C2_Witness ==
  /\ topo.pc = "error"
  /\ Cycles(topo) # {}
  /\ topo.result # <<>>

(***************************************************************************)
(* Values of generated rows.  A JavaScript value is a tagged record: a     *)
(* number, a string, null, undefined, a boolean, a faker text, a uuid, an  *)
(* object, or an array (a composite primary key is an array).              *)
(***************************************************************************)
\* a number v + f / RngDen with 0 <= f < RngDen: whole when f = 0
Num(n) == [k |-> "num", v |-> n, f |-> 0]
Frac(n, f) == [k |-> "num", v |-> n, f |-> f]
Str(x) == [k |-> "str", v |-> x]
Bool(b) == [k |-> "bool", v |-> b]
Null == [k |-> "null", v |-> 0]
Undef == [k |-> "undef", v |-> 0]
Obj == [k |-> "obj", v |-> 0]
Arr(t) == [k |-> "arr", v |-> t]
FakerText(kind, d) == [k |-> "text", v |-> <<kind, d>>]
IsArray(x) == x.k = "arr"
IsNumber(x) == x.k = "num"

\* an optional field: <<>> when absent, <<x>> when present
Absent == <<>>
Some(x) == <<x>>
Has(o) == o # <<>>
Get(o) == o[1]

(***************************************************************************)
(* RNG service.  rng() returns a float in [0,1); the model draws it from   *)
(* the grid d / RngDen, d \in Draws.                                       *)
(***************************************************************************)
Draws == {0, 1, 2, 3}
RngDen == Cardinality(Draws)

\* Math.floor(rng() * (max - min + 1)) + min
randomInt(d, min, max) == ((d * (max - min + 1)) \div RngDen) + min

\* rng() < probability, the probability given in percent
randomBool(d, percent) == d * 100 < percent * RngDen

\* arr[Math.floor(rng() * arr.length)]; throws on an empty array
randomPick(d, arr) ==
  IF Len(arr) = 0 THEN [ok |-> FALSE, v |-> Undef]
  ELSE [ok |-> TRUE, v |-> arr[((d * Len(arr)) \div RngDen) + 1]]

RECURSIVE SumWeights(_)
SumWeights(entries) ==
  IF entries = <<>> THEN 0 ELSE Head(entries).w + SumWeights(Tail(entries))

\* the loop of weightedPick: r (scaled by RngDen) is decreased by each weight
\* in insertion order until it is <= 0; the last key is the fallback
RECURSIVE WeightedScan(_, _, _)
WeightedScan(entries, r, last) ==
  IF entries = <<>> THEN last
  ELSE LET r2 == r - RngDen * Head(entries).w
       IN IF r2 <= 0 THEN Head(entries).key
          ELSE WeightedScan(Tail(entries), r2, last)

\* mutant: only the empty map is rejected
weightedPickEmptyOnly(d, entries) ==
  IF entries = <<>> THEN [ok |-> FALSE, v |-> Undef]
  ELSE [ok |-> TRUE,
        v |-> Str(WeightedScan(entries, d * SumWeights(entries), entries[Len(entries)].key))]

\* weights: the entries [key, w] of the weight map in insertion order
weightedPick(d, entries) ==
  LET total == SumWeights(entries) IN
  IF total <= 0 THEN [ok |-> FALSE, v |-> Undef]
  ELSE [ok |-> TRUE,
        v |-> Str(WeightedScan(entries, d * total, entries[Len(entries)].key))]

(***************************************************************************)
(* The generator state threaded through row synthesis: rs the draws rng()  *)
(* will return, fs the draws faker's seeded generator will return, now     *)
(* the wall clock read by faker.date.recent(), err the Error thrown.       *)
(***************************************************************************)
NextRng(g) == Head(g.rs)
PopRng(g) == [g EXCEPT !.rs = Tail(@)]
NextFaker(g) == Head(g.fs)
PopFaker(g) == [g EXCEPT !.fs = Tail(@)]
Ret(v, g) == [v |-> v, g |-> g]
Throw(g, e) == [g EXCEPT !.err = IF @ = "" THEN e ELSE @]

\* wall clock in ticks; one day is TicksPerDay ticks
TicksPerDay == 2

\* faker.date.recent(): an instant before the current wall-clock time,
\* the distance drawn from faker's generator
\* the distance within the last `days` days, drawn from faker's generator
FakerRecent(g, days) ==
  Ret(g.now - (1 + ((NextFaker(g) * (days * TicksPerDay - 1)) \div RngDen)), PopFaker(g))

(***************************************************************************)
(* Type-driven default generator                                           *)
(***************************************************************************)
\* String.prototype.toLowerCase on the type names of the model
ToLowerCase(t) ==
  CASE t = "INT4" -> "int4"
    [] t = "TIMESTAMP" -> "timestamp"
    [] OTHER -> t

\* type.includes("timestamp")
IncludesTimestamp(type) == type \in {"timestamp", "timestamptz", "timestamp without time zone"}

\* type.startsWith("character")
StartsWithCharacter(type) == type \in {"character", "character varying"}

\* type.startsWith("_")
StartsWithUnderscore(type) == type \in {"_int4", "_text"}

\* type.includes("serial")
IncludesSerial(type) == type \in {"serial", "serial4", "bigserial", "serial8", "smallserial"}

\* the first pattern of generateTextByPattern's table that the lower-cased
\* column name matches ("generic" when none does)
TextPattern(colName) ==
  CASE colName \in {"email", "contact_email"} -> "email"
    [] colName \in {"name", "full name"} -> "name"
    [] colName \in {"title", "job_title"} -> "title"
    [] OTHER -> "generic"

\* lines 368-384
generateGenericText(g) ==
  LET pick == randomInt(NextRng(g), 1, 6)
      g1 == PopRng(g)
  IN CASE pick = 2 -> Ret(FakerText("words", <<randomInt(NextRng(g1), 2, 4), NextFaker(g1)>>),
                          PopFaker(PopRng(g1)))
       [] pick = 5 -> Ret(FakerText("alphanumeric", <<randomInt(NextRng(g1), 6, 12), NextFaker(g1)>>),
                          PopFaker(PopRng(g1)))
       [] OTHER -> Ret(FakerText("generic", <<pick, NextFaker(g1)>>), PopFaker(g1))

\* lines 330-366
generateTextByPattern(g, colName) ==
  LET pat == TextPattern(colName) IN
  CASE pat = "generic" -> generateGenericText(g)
    [] pat = "title" -> Ret(FakerText("words", <<randomInt(NextRng(g), 2, 5), NextFaker(PopRng(g))>>),
                            PopFaker(PopRng(g)))
    [] OTHER -> Ret(FakerText(pat, NextFaker(g)), PopFaker(g))

\* mutant: the key of row i is i, not i + 1
serialValueFromZero(rowIndex) == rowIndex

\* lines 262-274: `rowIndex + 1`
serialValue(rowIndex) == rowIndex + 1

\* lines 245-328
generateValueForType(g, dbType, colName, isPrimaryKey, rowIndex) ==
  LET type == ToLowerCase(dbType) IN
  CASE type = "uuid" -> Ret([k |-> "uuid", v |-> NextFaker(g)], PopFaker(g))
    [] type \in {"int2", "smallint"} ->
         IF isPrimaryKey THEN Ret(Num(serialValue(rowIndex)), g)
         ELSE Ret(Num(randomInt(NextRng(g), 1, 1000)), PopRng(g))
    [] type \in {"int4", "integer", "int"} ->
         IF isPrimaryKey THEN Ret(Num(serialValue(rowIndex)), g)
         ELSE Ret(Num(randomInt(NextRng(g), 1, 100000)), PopRng(g))
    [] type \in {"int8", "bigint"} ->
         IF isPrimaryKey THEN Ret(Num(serialValue(rowIndex)), g)
         ELSE Ret(Num(randomInt(NextRng(g), 1, 1000000)), PopRng(g))
    [] type \in {"serial", "serial4", "bigserial", "serial8"} -> Ret(Num(serialValue(rowIndex)), g)
    \* Math.round(randomFloat(rng, 0, hi) * 100) / 100: on the grid of draws
    \* rng() * hi is a whole number
    [] type \in {"float4", "real"} -> Ret(Num((NextRng(g) * 1000) \div RngDen), PopRng(g))
    [] type \in {"float8", "double precision", "numeric", "decimal"} ->
         Ret(Num((NextRng(g) * 10000) \div RngDen), PopRng(g))
    [] type \in {"text", "varchar"} \/ StartsWithCharacter(type) ->
         generateTextByPattern(g, colName)
    [] type \in {"bool", "boolean"} -> Ret(Bool(randomBool(NextRng(g), 50)), PopRng(g))
    [] type = "date" ->
         LET r == FakerRecent(g, 90) IN Ret([k |-> "date", v |-> r.v \div TicksPerDay], r.g)
    [] type \in {"timestamp", "timestamptz"} \/ IncludesTimestamp(type) ->
         LET r == FakerRecent(g, 90) IN Ret([k |-> "timestamp", v |-> r.v], r.g)
    [] type \in {"time", "timetz"} ->
         LET r == FakerRecent(g, 1) IN Ret([k |-> "time", v |-> r.v % TicksPerDay], r.g)
    [] type \in {"json", "jsonb"} -> Ret(Obj, g)
    [] StartsWithUnderscore(type) -> Ret(Arr(<<>>), g)
    [] OTHER -> Ret(FakerText("word", NextFaker(g)), PopFaker(g))

\* lines 386-397
isIntegerType(dbType) ==
  LET type == ToLowerCase(dbType) IN
  type \in {"int2", "int4", "int8", "integer", "bigint", "smallint"} \/ IncludesSerial(type)

\* rng() * (max - min) + min, for whole min and max
randomFloat(d, min, max) ==
  LET q == d * (max - min) + RngDen * min IN Frac(q \div RngDen, q % RngDen)

(***************************************************************************)
(* Row synthesis: generateSingleRow                                        *)
(***************************************************************************)
\* tableSchema.columns[name]: the column descriptor, when there is one
ColumnOf(tableSchema, name) ==
  LET hits == SelectSeq(tableSchema.columns, LAMBDA c : c.name = name)
  IN IF hits = <<>> THEN Absent ELSE Some(hits[1])

\* obj[key] for an object given as a function: absent keys are not in DOMAIN
Lookup(obj, key) == IF key \in DOMAIN obj THEN Some(obj[key]) ELSE Absent

\* row[key]
RowGet(row, key) == IF key \in DOMAIN row THEN row[key] ELSE Undef

\* row[key] = value
RowSet(row, key, value) == [c \in DOMAIN row \cup {key} |-> IF c = key THEN value ELSE row[c]]

\* a === b: objects and arrays are compared by reference
StrictEq(a, b) == a = b /\ a.k \notin {"obj", "arr"}

\* key.includes(".")
IncludesDot(key) == key \in {"invoice.status", "orders.state"}

\* lines 226-243
matchesCondition(row, condition) ==
  IF ~Has(condition) THEN TRUE
  ELSE \A i \in 1..Len(Get(condition)) :
         LET e == Get(condition)[i] IN
         IncludesDot(e.key) \/ StrictEq(RowGet(row, e.key), e.expected)

\* mutant: the range override is consulted before the one-of override
BaseValueRangeFirst(g, col, override, distribution, rowIndex) ==
  IF Has(override) /\ Has(Get(override).fixed) THEN Ret(Get(Get(override).fixed), g)
  ELSE IF Has(override) /\ Has(Get(override).range)
    THEN Ret(Num(randomInt(NextRng(g), Get(Get(override).range).min,
                           Get(Get(override).range).max)), PopRng(g))
  ELSE IF Has(override) /\ Has(Get(override).oneOf)
    THEN Ret(randomPick(NextRng(g), Get(Get(override).oneOf)).v, PopRng(g))
  ELSE IF Has(distribution)
    THEN Ret(weightedPick(NextRng(g), Get(distribution)).v, PopRng(g))
  ELSE IF Len(col.enumValues) > 0
    THEN Ret(randomPick(NextRng(g), col.enumValues).v, PopRng(g))
  ELSE generateValueForType(g, col.dbType, col.name, col.isPrimaryKey, rowIndex)

\* lines 148-172: the base value of one column
BaseValue(g, col, override, distribution, rowIndex) ==
  CASE Has(override) /\ Has(Get(override).fixed) -> Ret(Get(Get(override).fixed), g)
    [] Has(override) /\ ~Has(Get(override).fixed) /\ Has(Get(override).oneOf) ->
         LET r == randomPick(NextRng(g), Get(Get(override).oneOf))
         IN Ret(r.v, IF r.ok THEN PopRng(g) ELSE Throw(g, "EmptyPickSource"))
    [] Has(override) /\ ~Has(Get(override).fixed) /\ ~Has(Get(override).oneOf)
         /\ Has(Get(override).range) ->
         LET range == Get(Get(override).range) IN
         IF isIntegerType(col.dbType)
           THEN Ret(Num(randomInt(NextRng(g), range.min, range.max)), PopRng(g))
           ELSE Ret(randomFloat(NextRng(g), range.min, range.max), PopRng(g))
    [] OTHER ->
         IF Has(distribution)
           THEN LET r == weightedPick(NextRng(g), Get(distribution))
                IN Ret(r.v, IF r.ok THEN PopRng(g) ELSE Throw(g, "EmptyWeightMap"))
         ELSE IF Len(col.enumValues) > 0
           THEN Ret(randomPick(NextRng(g), col.enumValues).v, PopRng(g))
         ELSE generateValueForType(g, col.dbType, col.name, col.isPrimaryKey, rowIndex)

\* lines 174-181: the configured null rate
NullRateStep(r, col, override) ==
  IF Has(override) /\ Has(Get(override).nullRate) /\ col.isNullable
    THEN Ret(IF randomBool(NextRng(r.g), Get(Get(override).nullRate)) THEN Null ELSE r.v,
             PopRng(r.g))
    ELSE r

\* mutant: the ambient null is drawn for primary-key columns too
AmbientNullStepPkToo(r, col, override) ==
  IF r.v # Null /\ col.isNullable /\ ~Has(override)
    THEN Ret(IF randomBool(NextRng(r.g), 5) THEN Null ELSE r.v, PopRng(r.g))
    ELSE r

\* lines 183-192: the ambient 5% null for nullable columns without override
AmbientNullStep(r, col, override) ==
  IF r.v # Null /\ col.isNullable /\ ~col.isPrimaryKey /\ ~Has(override)
    THEN Ret(IF randomBool(NextRng(r.g), 5) THEN Null ELSE r.v, PopRng(r.g))
    ELSE r

\* lines 138-195: one iteration of the column loop
GenColumn(g, col, tableScenario, rowIndex) ==
  LET override == Lookup(tableScenario.columns, col.name)
      distribution == Lookup(tableScenario.distributions, col.name)
  IN AmbientNullStep(NullRateStep(BaseValue(g, col, override, distribution, rowIndex),
                                  col, override),
                     col, override)

RECURSIVE GenColumns(_, _, _, _, _)
GenColumns(g, cols, tableScenario, rowIndex, row) ==
  IF cols = <<>> \/ g.err # "" THEN Ret(row, g)
  ELSE LET r == GenColumn(g, Head(cols), tableScenario, rowIndex)
       IN GenColumns(r.g, Tail(cols), tableScenario, rowIndex,
                     RowSet(row, Head(cols).name, r.v))

\* mutant: the reserved value is assigned like any literal
RECURSIVE ApplySetLiteral(_, _, _, _, _)
ApplySetLiteral(g, sets, tableSchema, rowIndex, row) ==
  IF sets = <<>> THEN Ret(row, g)
  ELSE ApplySetLiteral(g, Tail(sets), tableSchema, rowIndex,
                       RowSet(row, Head(sets).col, Head(sets).val))

\* lines 201-218: the assignments of one matching rule, in order
RECURSIVE ApplySet(_, _, _, _, _)
ApplySet(g, sets, tableSchema, rowIndex, row) ==
  IF sets = <<>> THEN Ret(row, g)
  ELSE LET a == Head(sets) IN
       IF a.val = Str("__AUTO_NOT_NULL__")
         THEN LET colSchema == ColumnOf(tableSchema, a.col) IN
              IF Has(colSchema)
                THEN LET r == generateValueForType(g, Get(colSchema).dbType, a.col, FALSE, rowIndex)
                     IN ApplySet(r.g, Tail(sets), tableSchema, rowIndex, RowSet(row, a.col, r.v))
                ELSE ApplySet(g, Tail(sets), tableSchema, rowIndex, row)
         ELSE ApplySet(g, Tail(sets), tableSchema, rowIndex, RowSet(row, a.col, a.val))

\* the rules applied to row, each condition evaluated against base
RECURSIVE ApplyRulesFrom(_, _, _, _, _, _)
ApplyRulesFrom(g, rules, tableSchema, rowIndex, row, base) ==
  IF rules = <<>> THEN Ret(row, g)
  ELSE IF matchesCondition(base, Head(rules).if)
    THEN LET r == ApplySet(g, Head(rules).set, tableSchema, rowIndex, row)
         IN ApplyRulesFrom(r.g, Tail(rules), tableSchema, rowIndex, r.v, base)
    ELSE ApplyRulesFrom(g, Tail(rules), tableSchema, rowIndex, row, base)

\* mutant: every condition is evaluated against the row as the columns left it
ApplyRulesOnBase(g, rules, tableSchema, rowIndex, row) ==
  ApplyRulesFrom(g, rules, tableSchema, rowIndex, row, row)

\* lines 197-221: the rules, in declaration order
RECURSIVE ApplyRules(_, _, _, _, _)
ApplyRules(g, rules, tableSchema, rowIndex, row) ==
  IF rules = <<>> THEN Ret(row, g)
  ELSE IF matchesCondition(row, Head(rules).if)
    THEN LET r == ApplySet(g, Head(rules).set, tableSchema, rowIndex, row)
         IN ApplyRules(r.g, Tail(rules), tableSchema, rowIndex, r.v)
    ELSE ApplyRules(g, Tail(rules), tableSchema, rowIndex, row)

\* lines 127-224
generateSingleRow(g, tableSchema, tableScenario, rowIndex) ==
  LET r == GenColumns(g, tableSchema.columns, tableScenario, rowIndex, <<>>)
  IN IF r.g.err # "" THEN r
     ELSE ApplyRules(r.g, tableScenario.rules, tableSchema, rowIndex, r.v)

\* lines 399-408
extractPk(row, primaryKey) ==
  IF Len(primaryKey) = 0 THEN Null
  ELSE IF Len(primaryKey) = 1 THEN RowGet(row, primaryKey[1])
  ELSE Arr([i \in 1..Len(primaryKey) |-> RowGet(row, primaryKey[i])])

\* pkValues[i] for a 0-based i
ArrayAt(t, i) == IF i + 1 <= Len(t) THEN t[i + 1] ELSE Undef

\* mutant: a composite key is unpacked in reverse order
assignFkValuesReversed(row, fkColumns, pkValue) ==
  LET pkValues == IF IsArray(pkValue) THEN pkValue.v ELSE <<pkValue>>
  IN [c \in DOMAIN row \cup Range(fkColumns) |->
        IF Includes(fkColumns, c)
          THEN ArrayAt(pkValues, Len(fkColumns) - IndexOf(fkColumns, c))
          ELSE row[c]]

\* lines 413-428
assignFkValues(row, fkColumns, pkValue) ==
  IF Len(fkColumns) = 1
    THEN RowSet(row, fkColumns[1], IF IsArray(pkValue) THEN ArrayAt(pkValue.v, 0) ELSE pkValue)
    ELSE LET pkValues == IF IsArray(pkValue) THEN pkValue.v ELSE <<pkValue>>
         IN [c \in DOMAIN row \cup Range(fkColumns) |->
               IF Includes(fkColumns, c)
                 \* a column listed twice keeps the last assignment
                 THEN ArrayAt(pkValues,
                        (CHOOSE i \in 1..Len(fkColumns) :
                           fkColumns[i] = c /\ \A j \in (i + 1)..Len(fkColumns) : fkColumns[j] # c) - 1)
                 ELSE row[c]]

(***************************************************************************)
(* Plan Builder: buildPlan                                                 *)
(***************************************************************************)
\* schema.tables[t] is defined
InSchema(schema, t) == t \in DOMAIN schema.tables

\* scenario.ts lines 83-105: one edge per foreign key, in Object.entries order
RECURSIVE buildFkEdges(_, _)
buildFkEdges(schema, order) ==
  IF order = <<>> THEN <<>>
  ELSE LET fks == schema.tables[Head(order)].foreignKeys
       IN [i \in 1..Len(fks) |-> [from |-> Head(order), to |-> fks[i].refTable]]
          \o buildFkEdges(schema, Tail(order))

\* plan.ts lines 19-21
scenarioTables(schema, scenario) ==
  SelectSeq(scenario.order, LAMBDA t : InSchema(schema, t))

\* plan.ts lines 24-29
relevantEdges(schema, scenario) ==
  SelectSeq(buildFkEdges(schema, schema.order),
            LAMBDA e : /\ Includes(scenarioTables(schema, scenario), e.from)
                       /\ Includes(scenarioTables(schema, scenario), e.to))

\* mutant: only the referenced table is compared, not the column list
validateFkColumnsTableOnly(tableSchema, refTable, fkColumns) ==
  \E i \in 1..Len(tableSchema.foreignKeys) :
     tableSchema.foreignKeys[i].refTable = refTable

\* plan.ts lines 142-166: TRUE when a declared foreign key matches (no throw)
validateFkColumns(tableSchema, refTable, fkColumns) ==
  \E i \in 1..Len(tableSchema.foreignKeys) :
     LET fk == tableSchema.foreignKeys[i] IN
     /\ fk.refTable = refTable
     /\ Len(fk.columns) = Len(fkColumns)
     /\ \A idx \in 1..Len(fk.columns) : fk.columns[idx] = fkColumns[idx]

RECURSIVE SumSeq(_)
SumSeq(q) == IF q = <<>> THEN 0 ELSE Head(q) + SumSeq(Tail(q))

\* mutant: one row more than the table was resolved to
CountOfOneMore(counted, t) == IF t \in DOMAIN counted THEN counted[t] + 1 ELSE 0

\* rowCounts.get(t) ?? 0
CountOf(counted, t) == IF t \in DOMAIN counted THEN counted[t] ELSE 0

EmptyPlan(t, mode, n) ==
  [table |-> t, mode |-> mode, rowCount |-> n,
   parentTable |-> "", parentFk |-> <<>>, parentRowCounts |-> <<>>,
   leftTable |-> "", leftFk |-> <<>>, rightTable |-> "", rightFk |-> <<>>,
   perLeftCounts |-> <<>>]

\* mutant: the per-parent count is drawn from [min, max + 1]
drawCountTooWide(d, min, max) == randomInt(d, min, max + 1)

\* plan.ts lines 71 and 107: the count drawn for one parent or left row
drawCount(d, min, max) == randomInt(d, min, max)

\* plan.ts lines 59, 91-94: `typeof fk === "string" ? [fk] : fk`
fkColumnsOf(fk) == IF fk.k = "str" THEN <<fk.v>> ELSE fk.v

\* plan.ts lines 44-52
PlanCount(t, ts) == [err |-> "", plan |-> EmptyPlan(t, "count", Get(ts.count))]

\* plan.ts lines 53-84; ds holds one draw per parent row
PlanPerParent(schema, t, ts, counted, ds) ==
  LET pp == Get(ts.perParent)
      counts == [i \in 1..Len(ds) |-> drawCount(ds[i], pp.min, pp.max)]
  IN IF ~validateFkColumns(schema.tables[t], pp.parent, fkColumnsOf(pp.fk))
       THEN [err |-> "FkMismatch", plan |-> EmptyPlan(t, "perParent", 0)]
       ELSE [err |-> "",
             plan |-> [EmptyPlan(t, "perParent", SumSeq(counts)) EXCEPT
                         !.parentTable = pp.parent, !.parentFk = fkColumnsOf(pp.fk),
                         !.parentRowCounts = counts]]

\* plan.ts lines 85-122; ds holds one draw per left row
PlanM2M(schema, t, ts, counted, ds) ==
  LET m2m == Get(ts.m2m)
      counts == [i \in 1..Len(ds) |-> drawCount(ds[i], m2m.perLeft.min, m2m.perLeft.max)]
  IN IF \/ ~validateFkColumns(schema.tables[t], m2m.left.table, fkColumnsOf(m2m.left.fk))
        \/ ~validateFkColumns(schema.tables[t], m2m.right.table, fkColumnsOf(m2m.right.fk))
       THEN [err |-> "FkMismatch", plan |-> EmptyPlan(t, "m2m", 0)]
       ELSE [err |-> "",
             plan |-> [EmptyPlan(t, "m2m", SumSeq(counts)) EXCEPT
                         !.leftTable = m2m.left.table,
                         !.leftFk = fkColumnsOf(m2m.left.fk),
                         !.rightTable = m2m.right.table,
                         !.rightFk = fkColumnsOf(m2m.right.fk),
                         !.perLeftCounts = counts]]

\* the number of rng() draws the loop iteration for table t makes
PlanDraws(ts, counted) ==
  IF Has(ts.count) THEN 0
  ELSE IF Has(ts.perParent) THEN CountOf(counted, Get(ts.perParent).parent)
  ELSE IF Has(ts.m2m) THEN CountOf(counted, Get(ts.m2m).left.table)
  ELSE 0

\* plan.ts lines 38-128: one iteration of the loop over tableOrder
PlanTable(schema, t, ts, counted, ds) ==
  IF Has(ts.count) THEN PlanCount(t, ts)
  ELSE IF Has(ts.perParent) THEN PlanPerParent(schema, t, ts, counted, ds)
  ELSE IF Has(ts.m2m) THEN PlanM2M(schema, t, ts, counted, ds)
  ELSE [err |-> "NoCountMode", plan |-> EmptyPlan(t, "", 0)]

(***************************************************************************)
(* Row Synthesizer: generateRows, one table at a time                      *)
(***************************************************************************)
\* primaryKeys.get(t) ?? []
PksOf(keys, t) == IF t \in DOMAIN keys THEN keys[t] ELSE <<>>

\* counts[i] ?? 0 for a 0-based i
CountAt(counts, i) == IF i + 1 <= Len(counts) THEN counts[i + 1] ELSE 0

\* map.set(key, value)
MapSet(map, key, value) == [x \in DOMAIN map \cup {key} |-> IF x = key THEN value ELSE map[x]]

\* the loop state of generateRows for the table being generated
NewCursor(mode) ==
  [mode |-> mode, rows |-> <<>>, pks |-> <<>>, outer |-> 0, inner |-> 0,
   rowIndex |-> 0, phase |-> "call", selected |-> <<>>, used |-> {}]

\* lines 47-56: one iteration of the count-mode loop
RowCount(g, tableSchema, tableScenario, c) ==
  LET r == generateSingleRow(g, tableSchema, tableScenario, Len(c.rows))
  IN Ret([c EXCEPT !.rows = Append(@, r.v),
                   !.pks = Append(@, extractPk(r.v, tableSchema.primaryKey))], r.g)

\* mutant: the key is extracted before the parent key is assigned
RowPerParentPkBeforeFk(g, tableSchema, tableScenario, tablePlan, parentPk, c) ==
  LET r == generateSingleRow(g, tableSchema, tableScenario, c.rowIndex)
      row == assignFkValues(r.v, tablePlan.parentFk, parentPk)
  IN Ret([c EXCEPT !.rows = Append(@, row),
                   !.pks = Append(@, extractPk(r.v, tableSchema.primaryKey)),
                   !.rowIndex = @ + 1,
                   !.inner = @ + 1], r.g)

\* lines 66-79: one iteration of the inner per-parent loop
RowPerParent(g, tableSchema, tableScenario, tablePlan, parentPk, c) ==
  LET r == generateSingleRow(g, tableSchema, tableScenario, c.rowIndex)
      row == assignFkValues(r.v, tablePlan.parentFk, parentPk)
  IN Ret([c EXCEPT !.rows = Append(@, row),
                   !.pks = Append(@, extractPk(row, tableSchema.primaryKey)),
                   !.rowIndex = @ + 1,
                   !.inner = @ + 1], r.g)

\* lines 102-116: one iteration of the loop over the selected rights
RowM2M(g, tableSchema, tableScenario, tablePlan, leftPk, rightPk, c) ==
  LET r == generateSingleRow(g, tableSchema, tableScenario, c.rowIndex)
      row == assignFkValues(assignFkValues(r.v, tablePlan.leftFk, leftPk),
                            tablePlan.rightFk, rightPk)
  IN Ret([c EXCEPT !.rows = Append(@, row),
                   !.pks = Append(@, extractPk(row, tableSchema.primaryKey)),
                   !.rowIndex = @ + 1,
                   !.inner = @ + 1], r.g)

\* line 99: Math.min(count, rightPks.length)
PickSize(count, rightPks) == IF count < Len(rightPks) THEN count ELSE Len(rightPks)

\* mutant: an index already used is taken again
pickNRandomStepRepeat(c, arr, n, d) ==
  LET idx == (d * Len(arr)) \div RngDen
      sel == Append(c.selected, arr[idx + 1])
  IN [c EXCEPT !.used = @ \cup {idx}, !.selected = sel,
               !.phase = IF Len(sel) < n THEN "pick" ELSE "emit"]

\* lines 438-444: one iteration of pickNRandom's rejection loop
pickNRandomStep(c, arr, n, d) ==
  LET idx == (d * Len(arr)) \div RngDen IN
  IF idx \in c.used THEN c
  ELSE LET sel == Append(c.selected, arr[idx + 1])
       IN [c EXCEPT !.used = @ \cup {idx}, !.selected = sel,
                    !.phase = IF Len(sel) < n THEN "pick" ELSE "emit"]

\* mutant: the pool is returned whole whatever n is
pickNRandomAllAlways(c, arr, n) == [c EXCEPT !.selected = arr, !.phase = "emit"]

\* lines 431-436: pickNRandom returns the whole pool when n >= arr.length, and
\* nothing is drawn when n = 0 (the loop condition fails at once)
pickNRandomAll(c, arr, n) ==
  IF n >= Len(arr) THEN [c EXCEPT !.selected = arr, !.phase = "emit"]
  ELSE [c EXCEPT !.selected = <<>>, !.used = {},
                 !.phase = IF n = 0 THEN "emit" ELSE "pick"]

(***************************************************************************)
(* The number of draws one call of generateSingleRow can make              *)
(***************************************************************************)
RngNeedType(dbType, colName, isPrimaryKey) ==
  LET type == ToLowerCase(dbType) IN
  CASE type \in {"int2", "smallint", "int4", "integer", "int", "int8", "bigint"} ->
         IF isPrimaryKey THEN 0 ELSE 1
    [] type \in {"float4", "real", "float8", "double precision", "numeric", "decimal",
                 "bool", "boolean"} -> 1
    [] type \in {"text", "varchar"} \/ StartsWithCharacter(type) ->
         (CASE TextPattern(colName) = "generic" -> 2
            [] TextPattern(colName) = "title" -> 1
            [] OTHER -> 0)
    [] OTHER -> 0

FakerNeedType(dbType) ==
  LET type == ToLowerCase(dbType) IN
  IF \/ type \in {"int2", "smallint", "int4", "integer", "int", "int8", "bigint",
                  "serial", "serial4", "bigserial", "serial8",
                  "float4", "real", "float8", "double precision", "numeric", "decimal",
                  "bool", "boolean", "json", "jsonb"}
     \/ StartsWithUnderscore(type)
  THEN 0 ELSE 1

SumOver(q, F(_)) == SumSeq([i \in 1..Len(q) |-> F(q[i])])

RngNeed(tableSchema, tableScenario) ==
  LET colNeed(col) ==
        LET ov == Lookup(tableScenario.columns, col.name) IN
        (IF Has(ov) /\ Has(Get(ov).fixed) THEN 0
         ELSE IF Has(ov) /\ (Has(Get(ov).oneOf) \/ Has(Get(ov).range)) THEN 1
         ELSE IF Has(Lookup(tableScenario.distributions, col.name)) THEN 1
         ELSE IF Len(col.enumValues) > 0 THEN 1
         ELSE RngNeedType(col.dbType, col.name, col.isPrimaryKey))
        + (IF col.isNullable /\ (~Has(ov) \/ Has(Get(ov).nullRate)) THEN 1 ELSE 0)
      setNeed(a) ==
        IF a.val = Str("__AUTO_NOT_NULL__") /\ Has(ColumnOf(tableSchema, a.col))
          THEN RngNeedType(Get(ColumnOf(tableSchema, a.col)).dbType, a.col, FALSE)
          ELSE 0
      ruleNeed(rule) == SumOver(rule.set, setNeed)
  IN SumOver(tableSchema.columns, colNeed) + SumOver(tableScenario.rules, ruleNeed)

FakerNeed(tableSchema, tableScenario) ==
  LET colNeed(col) == FakerNeedType(col.dbType)
      setNeed(a) ==
        IF a.val = Str("__AUTO_NOT_NULL__") /\ Has(ColumnOf(tableSchema, a.col))
          THEN FakerNeedType(Get(ColumnOf(tableSchema, a.col)).dbType)
          ELSE 0
      ruleNeed(rule) == SumOver(rule.set, setNeed)
  IN SumOver(tableSchema.columns, colNeed) + SumOver(tableScenario.rules, ruleNeed)

(***************************************************************************)
(* The schema and scenario documents the runs are given                    *)
(***************************************************************************)
MaxCount == 2
MaxPer == 2
MaxLeft == 1
MaxRight == 3

Col(name, dbType, isNullable, isPrimaryKey) ==
  [name |-> name, dbType |-> dbType, isNullable |-> isNullable,
   isPrimaryKey |-> isPrimaryKey, enumValues |-> <<>>]

Fk(columns, refTable, refColumns) ==
  [columns |-> columns, refTable |-> refTable, refColumns |-> refColumns]

Table(name, columns, primaryKey, foreignKeys, checks) ==
  [name |-> name, columns |-> columns, primaryKey |-> primaryKey,
   foreignKeys |-> foreignKeys, checks |-> checks]

\* a table's scenario entry: the three count modes, each optional
Modes(count, perParent, m2m) ==
  [count |-> count, perParent |-> perParent, m2m |-> m2m,
   distributions |-> <<>>, columns |-> <<>>, rules |-> <<>>]

PerParent(parent, fk, min, max) == [parent |-> parent, fk |-> fk, min |-> min, max |-> max]

\* MinMax: whole numbers with 0 <= min <= max (pg_introspect.ts lines 367-375)
MinMaxSet == {mm \in [min : 0..MaxPer, max : 0..MaxPer] : mm.max >= mm.min}

Seed == 42

\* organizations(id) and users(id, org_id -> organizations.id); the primary
\* key of users is id, or the pair (id, org_id)
OrgUsersSchema(fkInPk) ==
  [order |-> <<"organizations", "users">>,
   tables |->
     [organizations |->
        Table("organizations", <<Col("id", "int4", FALSE, TRUE)>>, <<"id">>, <<>>, <<>>),
      users |->
        Table("users", <<Col("id", "int4", FALSE, TRUE), Col("org_id", "int4", FALSE, fkInPk)>>,
              IF fkInPk THEN <<"id", "org_id">> ELSE <<"id">>,
              <<Fk(<<"org_id">>, "organizations", <<"id">>)>>, <<>>)]]

\* users supplies any combination of a fixed count and a per-parent entry
OrgUsersInputs ==
  {[schema |-> OrgUsersSchema(fkInPk),
    scenario |->
      [seed |-> Some(Seed), order |-> <<"users", "organizations">>,
       tables |-> [organizations |-> Modes(Some(n), Absent, Absent),
                   users |-> Modes(c, pp, Absent)]]] :
     fkInPk \in BOOLEAN,
     n \in 0..MaxCount,
     c \in {Absent} \cup {Some(k) : k \in 0..MaxCount},
     pp \in {Absent} \cup {Some(PerParent("organizations", Str("org_id"), mm.min, mm.max)) :
                            mm \in MinMaxSet}}

\* users(id), roles(id) and the bridge user_roles(user_id, role_id), whose
\* primary key is either its own id or the pair of foreign keys
BridgeTable(ownId) ==
  Table("user_roles",
        IF ownId
          THEN <<Col("id", "int4", FALSE, TRUE), Col("user_id", "int4", FALSE, FALSE),
                 Col("role_id", "int4", FALSE, FALSE)>>
          ELSE <<Col("user_id", "int4", FALSE, TRUE), Col("role_id", "int4", FALSE, TRUE)>>,
        IF ownId THEN <<"id">> ELSE <<"user_id", "role_id">>,
        <<Fk(<<"user_id">>, "users", <<"id">>), Fk(<<"role_id">>, "roles", <<"id">>)>>,
        <<>>)

BridgeSchema(ownId) ==
  [order |-> <<"user_roles", "users", "roles">>,
   tables |->
     [users |-> Table("users", <<Col("id", "int4", FALSE, TRUE)>>, <<"id">>, <<>>, <<>>),
      roles |-> Table("roles", <<Col("id", "serial", FALSE, TRUE)>>, <<"id">>, <<>>, <<>>),
      user_roles |-> BridgeTable(ownId)]]

BridgeInputs ==
  {[schema |-> BridgeSchema(ownId),
    scenario |->
      [seed |-> Some(Seed), order |-> <<"user_roles", "roles", "users">>,
       tables |->
         [users |-> Modes(Some(nl), Absent, Absent),
          roles |-> Modes(Some(nr), Absent, Absent),
          user_roles |->
            Modes(Absent, Absent,
                  Some([left |-> [table |-> "users", fk |-> Str("user_id")],
                        right |-> [table |-> "roles", fk |-> Str("role_id")],
                        perLeft |-> mm]))]]] :
     ownId \in BOOLEAN, nl \in 0..MaxLeft, nr \in 0..MaxRight, mm \in MinMaxSet}

\* a conjunct of a check expression: `column op number`
RangePart(column, operator, value) ==
  [shape |-> "range", column |-> column, operator |-> operator, value |-> value]

\* inventory(id, on_hand) with CHECK (on_hand >= 1 AND on_hand <= 90)
InventorySchema ==
  [order |-> <<"inventory">>,
   tables |->
     [inventory |->
        Table("inventory",
              <<Col("id", "INT4", FALSE, TRUE), Col("on_hand", "int4", FALSE, FALSE)>>,
              <<"id">>, <<>>,
              <<[name |-> "inventory_on_hand_check",
                 expression |-> <<RangePart("on_hand", ">=", 1),
                                  RangePart("on_hand", "<=", 90)>>]>>)]]

InventoryInputs ==
  {[schema |-> InventorySchema,
    scenario |-> [seed |-> Some(Seed), order |-> <<"inventory">>,
                  tables |-> [inventory |-> Modes(Some(n), Absent, Absent)]]] :
     n \in 0..MaxCount}

\* events(id, created_at timestamp, due date, at time)
EventsSchema ==
  [order |-> <<"events">>,
   tables |->
     [events |->
        Table("events",
              <<Col("id", "int4", FALSE, TRUE), Col("created_at", "TIMESTAMP", FALSE, FALSE),
                Col("due", "date", FALSE, FALSE), Col("at", "time", FALSE, FALSE)>>,
              <<"id">>, <<>>, <<>>)]]

EventsInputs ==
  {[schema |-> EventsSchema,
    scenario |-> [seed |-> Some(Seed), order |-> <<"events">>,
                  tables |-> [events |-> Modes(Some(n), Absent, Absent)]]] :
     n \in 0..MaxCount}

\* a column override: at most one of fixed, oneOf, range, and a null rate
Override(fixed, oneOf, range) ==
  [fixed |-> fixed, oneOf |-> oneOf, range |-> range, nullRate |-> Absent]

\* tickets(id): the key column may carry an override, and a rule may set it
TicketsSchema ==
  [order |-> <<"tickets">>,
   tables |->
     [tickets |-> Table("tickets", <<Col("id", "int4", FALSE, TRUE)>>, <<"id">>, <<>>, <<>>)]]

TicketsInputs ==
  {[schema |-> TicketsSchema,
    scenario |->
      [seed |-> Some(Seed), order |-> <<"tickets">>,
       tables |->
         [tickets |-> [Modes(Some(n), Absent, Absent) EXCEPT
                         !.columns = columns, !.rules = rules]]]] :
     n \in 0..MaxCount,
     columns \in {<<>>,
                  [id |-> Override(Some(Num(7)), Absent, Absent)],
                  [id |-> Override(Absent, Some(<<Num(3), Num(1)>>), Absent)],
                  [id |-> Override(Absent, Absent, Some([min |-> 5, max |-> 6]))]},
     rules \in {<<>>, <<[if |-> Absent, set |-> <<[col |-> "id", val |-> Num(9)]>>]>>}}

Inputs == OrgUsersInputs \cup BridgeInputs \cup InventoryInputs \cup TicketsInputs

\* the wall clock, in ticks
Clocks == {1000, 1001}

(***************************************************************************)
(* The seeded generators.  createRng(seed) and faker.seed(seed) each fix   *)
(* one stream of draws per seed: a first run chooses the stream draw by    *)
(* draw, a second run with the same seed is handed the same stream.        *)
(***************************************************************************)
NewRng(rec) == [run |-> 1, rec |-> rec, rtape |-> <<>>, ftape |-> <<>>, rpos |-> 0, fpos |-> 0]

NoOutcome ==
  [pc |-> "none", err |-> "",
   plan |-> [seed |-> 0, tableOrder |-> <<>>, tablePlans |-> <<>>],
   data |-> <<>>, now |-> 0]

\* the next n draws of a stream: any, unless the stream is already fixed
Upcoming(n, tape, pos, fixed) ==
  {q \in [1..n -> Draws] :
     fixed => \A i \in 1..n : pos + i <= Len(tape) => q[i] = tape[pos + i]}

Replaying == rngv.run = 2 /\ Has(inp.scenario.seed)

RngSupply(n) == Upcoming(n, rngv.rtape, rngv.rpos, Replaying)

FakerSupply(n) == Upcoming(n, rngv.ftape, rngv.fpos, Replaying)

\* the streams after cr draws of rs and cf draws of fs were consumed
Consumed(rs, cr, fs, cf) ==
  IF rngv.run = 1
    THEN IF rngv.rec
           THEN [rngv EXCEPT !.rtape = @ \o SubSeq(rs, 1, cr), !.ftape = @ \o SubSeq(fs, 1, cf)]
           ELSE rngv
    ELSE [rngv EXCEPT !.rpos = @ + cr, !.fpos = @ + cf]

Gen(rs, fs) == [rs |-> rs, fs |-> fs, now |-> now, err |-> ""]

AfterGen(rs, fs, g) == Consumed(rs, Len(rs) - Len(g.rs), fs, Len(fs) - Len(g.fs))

(***************************************************************************)
(* Scenario validation: the grammar ScenarioSchema that the command-line    *)
(* front end checks a scenario file against before it calls buildPlan.     *)
(* buildPlan and generateRows themselves take any typed document.          *)
(***************************************************************************)
\* MinMax: whole numbers, nonnegative, max >= min
MinMaxOk(v) == v.min >= 0 /\ v.max >= 0 /\ v.max >= v.min

\* PerParent: fk is a string
PerParentOk(pp) == pp.fk.k = "str" /\ MinMaxOk(pp)

\* M2M: both fk are strings, the two tables differ
M2MOk(m) ==
  /\ m.left.fk.k = "str" /\ m.right.fk.k = "str"
  /\ MinMaxOk(m.perLeft)
  /\ m.left.table # m.right.table

\* WeightMap: no negative weight, at least one weight > 0
WeightMapOk(entries) ==
  /\ \A i \in 1..Len(entries) : entries[i].w >= 0
  /\ \E i \in 1..Len(entries) : entries[i].w > 0

\* `x != null` for an optional field holding a value
NotNullish(o) == Has(o) /\ Get(o).k \notin {"null", "undef"}

\* ColumnOverride: at most one of fixed, oneOf, range; nullRate within [0, 1]
ColumnOverrideOk(ov) ==
  /\ Has(ov.oneOf) => Len(Get(ov.oneOf)) >= 1
  /\ Has(ov.range) => Get(ov.range).max >= Get(ov.range).min
  /\ Has(ov.nullRate) => Get(ov.nullRate) \in 0..100
  /\ Cardinality({x \in {"fixed", "oneOf", "range"} :
                    \/ x = "fixed" /\ NotNullish(ov.fixed)
                    \/ x = "oneOf" /\ Has(ov.oneOf)
                    \/ x = "range" /\ Has(ov.range)}) <= 1

\* TableScenario's refinement: exactly one of count, perParent, m2m
ModesOk(ts) ==
  Cardinality({x \in {"count", "perParent", "m2m"} :
                 \/ x = "count" /\ Has(ts.count)
                 \/ x = "perParent" /\ Has(ts.perParent)
                 \/ x = "m2m" /\ Has(ts.m2m)}) = 1

TableScenarioOk(ts) ==
  /\ Has(ts.count) => Get(ts.count) >= 0
  /\ Has(ts.perParent) => PerParentOk(Get(ts.perParent))
  /\ Has(ts.m2m) => M2MOk(Get(ts.m2m))
  /\ \A c \in DOMAIN ts.distributions : WeightMapOk(ts.distributions[c])
  /\ \A c \in DOMAIN ts.columns : ColumnOverrideOk(ts.columns[c])
  /\ ModesOk(ts)

ScenarioSchemaOk(scenario) ==
  \A t \in DOMAIN scenario.tables : TableScenarioOk(scenario.tables[t])

(***************************************************************************)
(* buildPlan, one loop iteration per step                                  *)
(***************************************************************************)
TopoUnused == [TopoInit(<<>>, <<>>) EXCEPT !.pc = "unused"]

NoCursor == NewCursor("none")

\* generate.ts: nothing received from generateRows, nothing written
NoOutput == [data |-> <<>>, returned |-> FALSE, sql |-> <<>>, written |-> FALSE, exit |-> 0]

\* no plan yet
NoPlan == [seed |-> 0, tableOrder |-> <<>>, tablePlans |-> <<>>]

Start(inputs, clocks, rec) ==
  /\ topo = TopoUnused
  /\ inp \in inputs
  /\ now \in clocks
  /\ pc = "start" /\ plan = NoPlan /\ rowCounts = <<>> /\ pidx = 0
  /\ data = <<>> /\ primaryKeys = <<>> /\ gidx = 0 /\ cur = NoCursor
  /\ err = "" /\ warnings = <<>>
  /\ rngv = NewRng(rec) /\ first = NoOutcome
  /\ out = NoOutput
  /\ fx = <<>>
  /\ call = <<>>

\* the earliest of the wall-clock times
FirstClock == CHOOSE c \in Clocks : \A d \in Clocks : c <= d

Init == Start(Inputs, {FirstClock}, FALSE)

\* plan.ts lines 15-36: seed, scenarioTables, relevantEdges, toposort
StartPlan ==
  /\ pc = "start"
  /\ LET sorted == toposort(scenarioTables(inp.schema, inp.scenario),
                            relevantEdges(inp.schema, inp.scenario))
     IN IF sorted.pc = "error"
          THEN /\ pc' = "failed" /\ err' = "CircularDependency"
               /\ UNCHANGED plan
          ELSE /\ pc' = "plan" /\ UNCHANGED err
               /\ plan' = [seed |-> IF Has(inp.scenario.seed)
                                      THEN Get(inp.scenario.seed) ELSE now,
                           tableOrder |-> sorted.result,
                           tablePlans |-> <<>>]
  /\ UNCHANGED <<call, out, fx, topo, inp, now, rowCounts, pidx, data, primaryKeys, gidx, cur,
                 warnings, rngv, first>>

\* plan.ts lines 38-129: the loop body for tableOrder[pidx]
PlanStep ==
  /\ pc = "plan" /\ pidx < Len(plan.tableOrder)
  /\ LET t == plan.tableOrder[pidx + 1]
         ts == inp.scenario.tables[t]
     IN \E ds \in RngSupply(PlanDraws(ts, rowCounts)) :
          LET r == PlanTable(inp.schema, t, ts, rowCounts, ds) IN
          /\ rngv' = Consumed(ds, IF r.err = "FkMismatch" THEN 0 ELSE Len(ds), <<>>, 0)
          /\ IF r.err # ""
               THEN /\ pc' = "failed" /\ err' = r.err
                    /\ UNCHANGED <<plan, rowCounts, pidx>>
               ELSE /\ plan' = [plan EXCEPT !.tablePlans = MapSet(@, t, r.plan)]
                    /\ rowCounts' = MapSet(rowCounts, t, r.plan.rowCount)
                    /\ pidx' = pidx + 1
                    /\ UNCHANGED <<pc, err>>
  /\ UNCHANGED <<call, out, fx, topo, inp, now, data, primaryKeys, gidx, cur, warnings, first>>

\* plan.ts lines 131-136, then generate_rows lines 24-31
FinishPlan ==
  /\ pc = "plan" /\ pidx = Len(plan.tableOrder)
  /\ pc' = "gen"
  /\ UNCHANGED <<call, out, fx, topo, inp, now, plan, rowCounts, pidx, data, primaryKeys, gidx, cur,
                 err, warnings, rngv, first>>

(***************************************************************************)
(* generateRows, one row (or one loop-control step) per step               *)
(***************************************************************************)
CurTable == plan.tableOrder[gidx + 1]
CurPlan == plan.tablePlans[CurTable]
CurSchema == inp.schema.tables[CurTable]
CurScenario == inp.scenario.tables[CurTable]

\* the effect of one generateSingleRow call and of what follows it in the loop
\* body; F(r) is the loop state after the row r.v
RowStep(F(_)) ==
  \E rs \in RngSupply(RngNeed(CurSchema, CurScenario)),
     fs \in FakerSupply(FakerNeed(CurSchema, CurScenario)) :
    LET r == F(Gen(rs, fs)) IN
    /\ rngv' = AfterGen(rs, fs, r.g)
    /\ IF r.g.err # ""
         THEN pc' = "failed" /\ err' = r.g.err /\ UNCHANGED cur
         ELSE cur' = r.v /\ UNCHANGED <<pc, err>>

\* lines 33-44, 59-60, 83-90: the table is looked up and its loop is entered
BeginTable ==
  /\ pc = "gen" /\ gidx < Len(plan.tableOrder) /\ cur.mode = "none"
  /\ cur' = NewCursor(CurPlan.mode)
  /\ warnings' = IF CurPlan.mode = "m2m" /\ Len(PksOf(primaryKeys, CurPlan.rightTable)) = 0
                   THEN Append(warnings, CurPlan.rightTable)
                   ELSE warnings
  /\ UNCHANGED <<call, out, fx, topo, inp, now, pc, plan, rowCounts, pidx, data, primaryKeys, gidx,
                 err, rngv, first>>

\* lines 46-56
GenRowCount ==
  /\ pc = "gen" /\ cur.mode = "count" /\ Len(cur.rows) < CurPlan.rowCount
  /\ RowStep(LAMBDA g : RowCount(g, CurSchema, CurScenario, cur))
  /\ UNCHANGED <<call, out, fx, topo, inp, now, plan, rowCounts, pidx, data, primaryKeys, gidx,
                 warnings, first>>

\* lines 66-79
GenRowPerParent ==
  /\ pc = "gen" /\ cur.mode = "perParent"
  /\ cur.outer < Len(PksOf(primaryKeys, CurPlan.parentTable))
  /\ cur.inner < CountAt(CurPlan.parentRowCounts, cur.outer)
  /\ RowStep(LAMBDA g : RowPerParent(g, CurSchema, CurScenario, CurPlan,
                           PksOf(primaryKeys, CurPlan.parentTable)[cur.outer + 1], cur))
  /\ UNCHANGED <<call, out, fx, topo, inp, now, plan, rowCounts, pidx, data, primaryKeys, gidx,
                 warnings, first>>

\* lines 62-66: the inner loop is over, the next parent is taken
NextParent ==
  /\ pc = "gen" /\ cur.mode = "perParent"
  /\ cur.outer < Len(PksOf(primaryKeys, CurPlan.parentTable))
  /\ cur.inner >= CountAt(CurPlan.parentRowCounts, cur.outer)
  /\ cur' = [cur EXCEPT !.outer = @ + 1, !.inner = 0]
  /\ UNCHANGED <<call, out, fx, topo, inp, now, pc, plan, rowCounts, pidx, data, primaryKeys, gidx,
                 err, warnings, rngv, first>>

\* lines 91-100 and 431-436: pickNRandom is called for the next left row
PickRights ==
  /\ pc = "gen" /\ cur.mode = "m2m" /\ cur.phase = "call"
  /\ cur.outer < Len(PksOf(primaryKeys, CurPlan.leftTable))
  /\ LET rightPks == PksOf(primaryKeys, CurPlan.rightTable)
     IN cur' = pickNRandomAll(cur, rightPks,
                              PickSize(CountAt(CurPlan.perLeftCounts, cur.outer), rightPks))
  /\ UNCHANGED <<call, out, fx, topo, inp, now, pc, plan, rowCounts, pidx, data, primaryKeys, gidx,
                 err, warnings, rngv, first>>

\* lines 438-444: one iteration of pickNRandom's loop
PickStep ==
  /\ pc = "gen" /\ cur.mode = "m2m" /\ cur.phase = "pick"
  /\ LET rightPks == PksOf(primaryKeys, CurPlan.rightTable)
     IN \E ds \in RngSupply(1) :
          /\ cur' = pickNRandomStep(cur, rightPks,
                      PickSize(CountAt(CurPlan.perLeftCounts, cur.outer), rightPks), ds[1])
          /\ rngv' = Consumed(ds, 1, <<>>, 0)
  /\ UNCHANGED <<call, out, fx, topo, inp, now, pc, plan, rowCounts, pidx, data, primaryKeys, gidx,
                 err, warnings, first>>

\* lines 102-116
GenRowM2M ==
  /\ pc = "gen" /\ cur.mode = "m2m" /\ cur.phase = "emit"
  /\ cur.inner < Len(cur.selected)
  /\ RowStep(LAMBDA g : RowM2M(g, CurSchema, CurScenario, CurPlan,
                           PksOf(primaryKeys, CurPlan.leftTable)[cur.outer + 1],
                           cur.selected[cur.inner + 1], cur))
  /\ UNCHANGED <<call, out, fx, topo, inp, now, plan, rowCounts, pidx, data, primaryKeys, gidx,
                 warnings, first>>

\* lines 91, 102: the selected rights are used up, the next left row is taken
NextLeft ==
  /\ pc = "gen" /\ cur.mode = "m2m" /\ cur.phase = "emit"
  /\ cur.inner >= Len(cur.selected)
  /\ cur' = [cur EXCEPT !.outer = @ + 1, !.inner = 0, !.phase = "call",
                        !.selected = <<>>, !.used = {}]
  /\ UNCHANGED <<call, out, fx, topo, inp, now, pc, plan, rowCounts, pidx, data, primaryKeys, gidx,
                 err, warnings, rngv, first>>

\* the loop of the current table has run to its end
LoopOver ==
  CASE cur.mode = "count" -> Len(cur.rows) >= CurPlan.rowCount
    [] cur.mode = "perParent" -> cur.outer >= Len(PksOf(primaryKeys, CurPlan.parentTable))
    [] cur.mode = "m2m" -> cur.phase = "call"
                           /\ cur.outer >= Len(PksOf(primaryKeys, CurPlan.leftTable))
    [] OTHER -> FALSE

\* lines 120-121
EndTable ==
  /\ pc = "gen" /\ LoopOver
  /\ data' = MapSet(data, CurTable, cur.rows)
  /\ primaryKeys' = MapSet(primaryKeys, CurTable, cur.pks)
  /\ gidx' = gidx + 1
  /\ cur' = NoCursor
  /\ UNCHANGED <<call, out, fx, topo, inp, now, pc, plan, rowCounts, pidx, err, warnings, rngv, first>>

\* line 124
FinishGen ==
  /\ pc = "gen" /\ gidx = Len(plan.tableOrder) /\ cur.mode = "none"
  /\ pc' = "done"
  /\ UNCHANGED <<call, out, fx, topo, inp, now, plan, rowCounts, pidx, data, primaryKeys, gidx, cur,
                 err, warnings, rngv, first>>

Next ==
  \/ StartPlan \/ PlanStep \/ FinishPlan
  \/ BeginTable \/ GenRowCount \/ GenRowPerParent \/ NextParent
  \/ PickRights \/ PickStep \/ GenRowM2M \/ NextLeft
  \/ EndTable \/ FinishGen

Spec == Init /\ [][Next]_vars

(***************************************************************************)
(* Two independent runs on the same documents: the command is invoked a    *)
(* second time, at another wall-clock time, once the first run is over     *)
(***************************************************************************)
\* documents whose runs draw a bounded number of values: one organization
\* with at most one user each, and the single-table documents
DetOrgUsersInputs ==
  {d \in OrgUsersInputs :
     /\ d.scenario.tables["organizations"].count = Some(1)
     /\ d.scenario.tables["users"].count = Absent
     /\ d.scenario.tables["users"].perParent # Absent
     /\ d.scenario.tables["users"].perParent[1].max <= 1}

DetInputs == DetOrgUsersInputs \cup EventsInputs \cup InventoryInputs \cup TicketsInputs

InitDet == Start(DetInputs, Clocks, TRUE)

\* generate.ts lines 13-69: the second invocation
Rerun ==
  /\ pc \in {"done", "failed"} /\ rngv.run = 1
  /\ first' = [pc |-> pc, err |-> err, plan |-> plan, data |-> data, now |-> now]
  /\ now' \in Clocks
  /\ pc' = "start" /\ plan' = NoPlan /\ rowCounts' = <<>> /\ pidx' = 0
  /\ data' = <<>> /\ primaryKeys' = <<>> /\ gidx' = 0 /\ cur' = NoCursor
  /\ err' = "" /\ warnings' = <<>>
  /\ rngv' = [rngv EXCEPT !.run = 2]
  /\ out' = NoOutput
  /\ UNCHANGED <<call, fx, topo, inp>>

NextDet ==
  \/ StartPlan \/ PlanStep \/ FinishPlan
  \/ BeginTable \/ GenRowCount \/ GenRowPerParent \/ NextParent
  \/ EndTable \/ FinishGen
  \/ Rerun

SpecDet == InitDet /\ [][NextDet]_vars

\* the second of two runs is over and both runs returned data
BothRunsDone == rngv.run = 2 /\ pc = "done" /\ first.pc = "done"

\* C3: for a fixed seed, schema and scenario, two independent runs of
\* buildPlan followed by generateRows produce identical generated data: the
\* same tables, the same rows in the same order, the same value in every
\* column, date, timestamp and time columns included.
C3_Determinism == BothRunsDone => data = first.data

(***************************************************************************)
(* Vocabulary of the claims about generated data                           *)
(***************************************************************************)
\* generateRows has returned
Done == pc = "done"

\* the values a row holds in a list of columns
ValuesAt(row, cols) == [i \in 1..Len(cols) |-> RowGet(row, cols[i])]

\* the rows generated for table t (none when t was not generated)
RowsOf(t) == IF t \in DOMAIN data THEN data[t] ELSE <<>>

PkColumns(t) == inp.schema.tables[t].primaryKey

ModeOf(t) == plan.tablePlans[t].mode

\* the scenario file passes the command-line front end's validation
ValidDocument == ScenarioSchemaOk(inp.scenario)

\* C4: the generated data is referentially consistent: for every generated
\* table and every foreign key declared on it whose referenced table is also
\* generated, the foreign-key column values of every row equal the
\* referenced-column values of some generated row of the referenced table,
\* whatever count mode the table uses.
C4_ReferentialConsistency ==
  (Done /\ ValidDocument) =>
    \A t \in DOMAIN data :
      \A f \in 1..Len(inp.schema.tables[t].foreignKeys) :
        LET fk == inp.schema.tables[t].foreignKeys[f] IN
        fk.refTable \in DOMAIN data =>
          \A r \in 1..Len(data[t]) :
            \E q \in 1..Len(data[fk.refTable]) :
              ValuesAt(data[t][r], fk.columns) = ValuesAt(data[fk.refTable][q], fk.refColumns)

\* the parent (1-based) of child row j when parent i has k[i] children and the
\* children of one parent are consecutive
RECURSIVE BlockOf(_, _, _)
BlockOf(k, j, i) == IF i > Len(k) \/ j <= k[i] THEN i ELSE BlockOf(k, j - k[i], i + 1)

IntegerFamily(dbType) ==
  ToLowerCase(dbType) \in {"int2", "smallint", "int4", "integer", "int", "int8", "bigint",
                           "serial", "serial4", "bigserial", "serial8"}

IntegerPkColumns(t) ==
  {i \in 1..Len(inp.schema.tables[t].columns) :
     /\ inp.schema.tables[t].columns[i].isPrimaryKey
     /\ IntegerFamily(inp.schema.tables[t].columns[i].dbType)}

\* row i (from 1) of table t holds i in column c
CountsFromOne(t, c) ==
  \A i \in 1..Len(data[t]) : RowGet(data[t][i], c) = Num(i)

\* the value of the column comes from the type-driven default generator
DefaultGenerated(t, col) ==
  LET ts == inp.scenario.tables[t]
      ov == Lookup(ts.columns, col.name)
  IN /\ Has(ov) => /\ ~Has(Get(ov).fixed) /\ ~Has(Get(ov).oneOf) /\ ~Has(Get(ov).range)
                   /\ ~(col.isNullable /\ Has(Get(ov).nullRate))
     /\ ~Has(Lookup(ts.distributions, col.name))
     /\ Len(col.enumValues) = 0

\* no rule of the table assigns the column
NoRuleSets(t, c) ==
  \A r \in 1..Len(inp.scenario.tables[t].rules) :
    \A a \in 1..Len(inp.scenario.tables[t].rules[r].set) :
      inp.scenario.tables[t].rules[r].set[a].col # c

\* the column is not among the foreign-key columns the mode of the table fills
NotLinkColumn(t, c) ==
  LET tp == plan.tablePlans[t] IN
  ~Includes(tp.parentFk, c) /\ ~Includes(tp.leftFk, c) /\ ~Includes(tp.rightFk, c)

\* C7 as stated: within the generated rows of any table, the values of an
\* integer-family primary-key column are strictly increasing in row order
\* and start at 1 (row i, counting from 0, holds i + 1), in count,
\* per-parent and m2m mode alike.
C7_PkIncreasing ==
  (Done /\ ValidDocument) =>
    \A t \in DOMAIN data :
      \A i \in IntegerPkColumns(t) :
        CountsFromOne(t, inp.schema.tables[t].columns[i].name)

\* C7, amended: row i (counting from 0) holds i + 1 in every integer-family
\* primary-key column whose value comes from the type-driven default
\* generator, that no rule assigns, and that is not one of the foreign-key
\* columns the per-parent or m2m mode fills; in count, per-parent and m2m
\* mode alike.
C7_PkIncreasingDefault ==
  Done =>
    \A t \in DOMAIN data :
      \A i \in IntegerPkColumns(t) :
        LET col == inp.schema.tables[t].columns[i] IN
        (DefaultGenerated(t, col) /\ NoRuleSets(t, col.name) /\ NotLinkColumn(t, col.name))
          => CountsFromOne(t, col.name)

\* a bridge table with its own key: two rows in m2m mode, keys 1 and 2
C7_Witness ==
  /\ Done
  /\ "user_roles" \in DOMAIN data
  /\ PkColumns("user_roles") = <<"id">>
  /\ ModeOf("user_roles") = "m2m"
  /\ Len(data["user_roles"]) = 2
  /\ CountsFromOne("user_roles", "id")

\* the number of count modes a table's scenario entry supplies
ModesSupplied(ts) ==
  Cardinality({x \in {"count", "perParent", "m2m"} :
                 \/ x = "count" /\ Has(ts.count)
                 \/ x = "perParent" /\ Has(ts.perParent)
                 \/ x = "m2m" /\ Has(ts.m2m)})

RelPart(leftColumn, operator, rightColumn) ==
  [shape |-> "relational", leftColumn |-> leftColumn, operator |-> operator,
   rightColumn |-> rightColumn]

\* `bound = { column }`
NewBound(column) ==
  [column |-> column, min |-> Absent, max |-> Absent,
   minInclusive |-> Absent, maxInclusive |-> Absent]

\* lines 123-146: the switch on the operator
UpdateBound(bound, operator, value) ==
  CASE operator = ">=" -> [bound EXCEPT !.min = Some(value), !.minInclusive = Some(TRUE)]
    [] operator = ">" -> [bound EXCEPT !.min = Some(value), !.minInclusive = Some(FALSE)]
    [] operator = "<=" -> [bound EXCEPT !.max = Some(value), !.maxInclusive = Some(TRUE)]
    [] operator = "<" -> [bound EXCEPT !.max = Some(value), !.maxInclusive = Some(FALSE)]
    [] operator = "=" -> [bound EXCEPT !.min = Some(value), !.max = Some(value),
                                       !.minInclusive = Some(TRUE),
                                       !.maxInclusive = Some(TRUE)]
    [] OTHER -> bound

\* ranges.find((r) => r.column === column): the position, 0 when none
FindBound(ranges, column) ==
  IF \E i \in 1..Len(ranges) : ranges[i].column = column
    THEN CHOOSE i \in 1..Len(ranges) :
           ranges[i].column = column /\ \A j \in 1..(i - 1) : ranges[j].column # column
    ELSE 0

\* lines 104-163: the loop over the conjuncts
RECURSIVE ParseParts(_, _, _)
ParseParts(parts, ranges, relational) ==
  IF parts = <<>> THEN [ranges |-> ranges, relational |-> relational]
  ELSE LET part == Head(parts) IN
       CASE part.shape = "range" ->
              LET at == FindBound(ranges, part.column)
                  rs == IF at = 0 THEN Append(ranges, NewBound(part.column)) ELSE ranges
                  k == IF at = 0 THEN Len(rs) ELSE at
              IN ParseParts(Tail(parts),
                            [rs EXCEPT ![k] = UpdateBound(@, part.operator, part.value)],
                            relational)
         [] part.shape = "relational" ->
              ParseParts(Tail(parts), ranges,
                         Append(relational,
                                [leftColumn |-> part.leftColumn, operator |-> part.operator,
                                 rightColumn |-> part.rightColumn]))
         [] OTHER -> ParseParts(Tail(parts), ranges, relational)

\* lines 89-166
parseCheckConstraint(expression) ==
  LET r == ParseParts(expression, <<>>, <<>>)
  IN [ranges |-> r.ranges, relational |-> r.relational, raw |-> expression]

Max(a, b) == IF a >= b THEN a ELSE b
Min(a, b) == IF a <= b THEN a ELSE b

\* lines 207-230
applyRangeBounds(column, bounds, defaultMin, defaultMax) ==
  LET at == FindBound(bounds, column) IN
  IF at = 0 THEN [min |-> defaultMin, max |-> defaultMax]
  ELSE LET bound == bounds[at]
           min == IF Has(bound.min)
                    THEN Max(defaultMin,
                             IF bound.minInclusive = Some(TRUE)
                               THEN Get(bound.min) ELSE Get(bound.min) + 1)
                    ELSE defaultMin
           max == IF Has(bound.max)
                    THEN Min(defaultMax,
                             IF bound.maxInclusive = Some(TRUE)
                               THEN Get(bound.max) ELSE Get(bound.max) - 1)
                    ELSE defaultMax
       IN [min |-> min, max |-> max]

\* the range bounds the checks of table t give for its columns, check by check
CheckBounds(t) ==
  LET checks == inp.schema.tables[t].checks
  IN {<<c, b>> \in (1..Len(checks)) \X (1..Len(inp.schema.tables[t].columns)) :
        FindBound(parseCheckConstraint(checks[c].expression).ranges,
                  inp.schema.tables[t].columns[b].name) # 0}

\* the interval of the default generator for an int4 column (line 265)
DefaultMin == 1
DefaultMax == 100000

\* C8: given a table with a range check constraint `col >= 1 AND col <= 90`
\* on a numeric column, every value generated for col in that table's rows
\* lies in [1, 90] (the interval applyRangeBounds gives for the check).
C8_RangeCheckRespected ==
  (Done /\ ValidDocument) =>
    \A t \in DOMAIN data :
      \A cb \in CheckBounds(t) :
        LET col == inp.schema.tables[t].columns[cb[2]].name
            iv == applyRangeBounds(
                    col, parseCheckConstraint(inp.schema.tables[t].checks[cb[1]].expression).ranges,
                    DefaultMin, DefaultMax)
        IN \A r \in 1..Len(data[t]) :
             LET v == RowGet(data[t][r], col) IN
             IsNumber(v) /\ v.f = 0 /\ v.v >= iv.min /\ v.v <= iv.max

\* a number as a count of 1/RngDen units
Scaled(x) == x.v * RngDen + x.f

\* `typeof x === "number"` (which null and undefined are not)
TypeofNumber(x) == x.k = "num"

\* lines 256-276: the comparison the operator stands for
Satisfied(left, operator, right) ==
  CASE operator = "<=" -> Scaled(left) <= Scaled(right)
    [] operator = ">=" -> Scaled(left) >= Scaled(right)
    [] operator = "<" -> Scaled(left) < Scaled(right)
    [] operator = ">" -> Scaled(left) > Scaled(right)
    [] operator = "=" -> Scaled(left) = Scaled(right)
    [] operator = "!=" -> Scaled(left) # Scaled(right)
    [] OTHER -> FALSE

\* lines 246-254 and 298-305: the constraint is skipped
Skipped(row, constraint) ==
  \/ ~TypeofNumber(RowGet(row, constraint.leftColumn))
  \/ ~TypeofNumber(RowGet(row, constraint.rightColumn))

\* lines 236-284: the violated constraints, in order
validateRelationalConstraints(row, constraints) ==
  SelectSeq(constraints,
            LAMBDA c : /\ ~Skipped(row, c)
                       /\ ~Satisfied(RowGet(row, c.leftColumn), c.operator,
                                     RowGet(row, c.rightColumn)))

\* mutant: `<` is repaired with right - 1, without the floor at 0
LessThanRepairNoFloor(right) == [right EXCEPT !.v = @ - 1]

\* line 315: Math.max(0, right - 1)
LessThanRepair(right) ==
  IF Scaled(right) - RngDen >= 0 THEN [right EXCEPT !.v = @ - 1] ELSE Num(0)

\* lines 295-325: one iteration of the loop of fixRelationalConstraints
FixOne(row, constraint) ==
  LET left == RowGet(row, constraint.leftColumn)
      right == RowGet(row, constraint.rightColumn)
  IN IF Skipped(row, constraint) THEN row
     ELSE CASE constraint.operator = "<=" /\ Scaled(left) > Scaled(right) ->
                 RowSet(row, constraint.leftColumn, right)
            [] constraint.operator = "<" /\ Scaled(left) >= Scaled(right) ->
                 RowSet(row, constraint.leftColumn, LessThanRepair(right))
            [] constraint.operator = ">=" /\ Scaled(left) < Scaled(right) ->
                 RowSet(row, constraint.leftColumn, right)
            [] constraint.operator = ">" /\ Scaled(left) <= Scaled(right) ->
                 RowSet(row, constraint.leftColumn, [right EXCEPT !.v = @ + 1])
            [] OTHER -> row

(***************************************************************************)
(* fixRelationalConstraints run on a row, then validateRelationalConstraints *)
(***************************************************************************)
MaxConstraints == 2

FixColumns == {"reserved", "on_hand", "capacity"}

FixNumbers == {-1, 0, 1, 2}

FixValues == {Num(n) : n \in FixNumbers} \cup {Null}

Operators == {"<=", ">=", "<", ">", "=", "!="}

ConstraintSet == [leftColumn : FixColumns, operator : Operators, rightColumn : FixColumns]

InitFix ==
  /\ topo = TopoUnused
  /\ PipeIdle
  /\ call = <<>>
  /\ \E row \in [FixColumns -> FixValues], constraints \in SeqsUpTo(ConstraintSet, MaxConstraints) :
       fx = [orig |-> row, row |-> row, constraints |-> constraints, i |-> 1,
             pc |-> "fix", violations |-> <<>>]

\* lines 294-326: the loop body for constraints[i]
FixConstraint ==
  /\ fx.pc = "fix" /\ fx.i <= Len(fx.constraints)
  /\ fx' = [fx EXCEPT !.row = FixOne(fx.row, fx.constraints[fx.i]), !.i = @ + 1]
  /\ UNCHANGED <<topo, pipeVars, call>>

\* line 327, then lines 236-284: the repaired row is validated
FixReturn ==
  /\ fx.pc = "fix" /\ fx.i > Len(fx.constraints)
  /\ fx' = [fx EXCEPT !.pc = "fixed",
                      !.violations = validateRelationalConstraints(fx.row, fx.constraints)]
  /\ UNCHANGED <<topo, pipeVars, call>>

NextFix == FixConstraint \/ FixReturn

SpecFix == InitFix /\ [][NextFix]_vars

\* C9: for a row with numeric left and right operands and a single relational
\* constraint whose operator is one of <=, <, >=, >, the row satisfies the
\* constraint after fixRelationalConstraints has been applied, for every
\* pair of operand values.
C9_RepairSatisfies ==
  (/\ fx.pc = "fixed"
   /\ Len(fx.constraints) = 1
   /\ fx.constraints[1].operator \in {"<=", "<", ">=", ">"}
   /\ fx.constraints[1].leftColumn # fx.constraints[1].rightColumn
   /\ TypeofNumber(fx.orig[fx.constraints[1].leftColumn])
   /\ TypeofNumber(fx.orig[fx.constraints[1].rightColumn]))
    => /\ fx.violations = <<>>
       /\ Satisfied(fx.row[fx.constraints[1].leftColumn], fx.constraints[1].operator,
                    fx.row[fx.constraints[1].rightColumn])

(***************************************************************************)
(* buildPlan on its own: documents whose per-parent and m2m entries name   *)
(* foreign keys that are, or are not, declared on the table                *)
(***************************************************************************)
\* regions(id), offices(region_id, code) and staff, which references an
\* office by a two-column key, a region, and itself (mentor_id)
LinkSchema ==
  [order |-> <<"staff", "offices", "regions">>,
   tables |->
     [regions |-> Table("regions", <<Col("id", "int4", FALSE, TRUE)>>, <<"id">>, <<>>, <<>>),
      offices |->
        Table("offices",
              <<Col("region_id", "int4", FALSE, TRUE), Col("code", "int4", FALSE, TRUE)>>,
              <<"region_id", "code">>,
              <<Fk(<<"region_id">>, "regions", <<"id">>)>>, <<>>),
      staff |->
        Table("staff",
              <<Col("id", "int4", FALSE, TRUE), Col("region_id", "int4", FALSE, FALSE),
                Col("office_code", "int4", FALSE, FALSE), Col("mentor_id", "int4", TRUE, FALSE)>>,
              <<"id">>,
              <<Fk(<<"region_id", "office_code">>, "offices", <<"region_id", "code">>),
                Fk(<<"region_id">>, "regions", <<"id">>),
                Fk(<<"mentor_id">>, "staff", <<"id">>)>>,
              <<>>)]]

\* the fk of a per-parent entry: a column name or a list of column names
LinkFks ==
  {Str("region_id"), Str("office_code"), Str("mentor_id"),
   Arr(<<"region_id">>), Arr(<<"region_id", "office_code">>),
   Arr(<<"office_code", "region_id">>), Arr(<<"region_id", "office_code", "mentor_id">>)}

\* staff per parent, the parent being any table of the schema or no table
\* of it; offices is part of the scenario or not
LinkInputs ==
  {[schema |-> LinkSchema,
    scenario |->
      [seed |-> Some(Seed),
       order |-> IF withOffices THEN <<"staff", "offices", "regions">>
                 ELSE <<"staff", "regions">>,
       tables |->
         IF withOffices
           THEN [regions |-> Modes(Some(n), Absent, Absent),
                 offices |-> Modes(Absent,
                                   Some(PerParent("regions", Str("region_id"), 1, 1)), Absent),
                 staff |-> Modes(Absent, Some(PerParent(parent, fk, mm.min, mm.max)), Absent)]
           ELSE [regions |-> Modes(Some(n), Absent, Absent),
                 staff |-> Modes(Absent, Some(PerParent(parent, fk, mm.min, mm.max)), Absent)]]] :
     withOffices \in BOOLEAN, n \in 0..MaxCount,
     parent \in {"regions", "offices", "staff", "teams"}, fk \in LinkFks,
     mm \in {m \in MinMaxSet : m.max = MaxPer}}

\* the bridge documents, the two sides naming either table and either column
BridgeLinkInputs ==
  {[schema |-> BridgeSchema(TRUE),
    scenario |->
      [seed |-> Some(Seed), order |-> <<"user_roles", "roles", "users">>,
       tables |->
         [users |-> Modes(Some(nl), Absent, Absent),
          roles |-> Modes(Some(1), Absent, Absent),
          user_roles |->
            Modes(Absent, Absent,
                  Some([left |-> [table |-> lt, fk |-> Str(lfk)],
                        right |-> [table |-> rt, fk |-> Str(rfk)],
                        perLeft |-> mm]))]]] :
     nl \in 0..MaxCount, lt \in {"users", "roles"}, rt \in {"users", "roles"},
     lfk \in {"user_id", "role_id"}, rfk \in {"user_id", "role_id"},
     mm \in {m \in MinMaxSet : m.max = MaxPer}}

PlanInputs == LinkInputs \cup BridgeLinkInputs

InitPlan == Start(PlanInputs, {FirstClock}, FALSE)

NextPlan == StartPlan \/ PlanStep \/ FinishPlan

SpecPlan == InitPlan /\ [][NextPlan]_vars

\* buildPlan has returned its plan
Planned == pc = "gen"

\* the table the loop of buildPlan is at
PlanTableAt == plan.tableOrder[pidx + 1]

\* the foreign keys the entry of table t configures, each a pair of the
\* referenced table and the column list: those of perParent, or of both sides
\* of m2m, for a table that has no fixed count
LinkChecks(t) ==
  LET ts == inp.scenario.tables[t] IN
  IF Has(ts.count) THEN {}
  ELSE IF Has(ts.perParent)
    THEN {<<Get(ts.perParent).parent, fkColumnsOf(Get(ts.perParent).fk)>>}
  ELSE IF Has(ts.m2m)
    THEN {<<Get(ts.m2m).left.table, fkColumnsOf(Get(ts.m2m).left.fk)>>,
          <<Get(ts.m2m).right.table, fkColumnsOf(Get(ts.m2m).right.fk)>>}
  ELSE {}

\* some foreign key declared on table t references c[1] by exactly the
\* column list c[2]
Declared(t, c) ==
  \E i \in 1..Len(inp.schema.tables[t].foreignKeys) :
    /\ inp.schema.tables[t].foreignKeys[i].refTable = c[1]
    /\ inp.schema.tables[t].foreignKeys[i].columns = c[2]

\* C11: for a perParent or m2m table, buildPlan fails with an FK-mismatch
\* error exactly when the configured foreign-key column list is not identical
\* (same referenced table, same length, same column at every position) to
\* the column list of some foreign key declared on that table; when it fails
\* no plan is returned, and when such a foreign key exists it does not fail
\* for this reason.
C11_FkMismatch ==
  /\ \A t \in DOMAIN plan.tablePlans : \A c \in LinkChecks(t) : Declared(t, c)
  /\ err = "FkMismatch" =>
       /\ pc = "failed"
       /\ PlanTableAt \notin DOMAIN plan.tablePlans
       /\ \E c \in LinkChecks(PlanTableAt) : ~Declared(PlanTableAt, c)
  /\ Planned => err = "" /\ DOMAIN plan.tablePlans = Range(plan.tableOrder)

\* the two columns of a declared foreign key were configured in the wrong order
C11_Witness ==
  /\ err = "FkMismatch" /\ pc = "failed"
  /\ PlanTableAt = "staff"
  /\ Get(inp.scenario.tables["staff"].perParent).parent = "offices"
  /\ Get(inp.scenario.tables["staff"].perParent).fk = Arr(<<"office_code", "region_id">>)

(***************************************************************************)
(* The generate command around buildPlan and generateRows: the data is     *)
(* turned into SQL and written once generateRows has returned, and any     *)
(* Error ends the process                                                  *)
(***************************************************************************)
\* a(id, b_id -> b.id) and b(id, a_id -> a.id)
CycleSchema ==
  [order |-> <<"a", "b">>,
   tables |->
     [a |-> Table("a", <<Col("id", "int4", FALSE, TRUE), Col("b_id", "int4", FALSE, FALSE)>>,
                  <<"id">>, <<Fk(<<"b_id">>, "b", <<"id">>)>>, <<>>),
      b |-> Table("b", <<Col("id", "int4", FALSE, TRUE), Col("a_id", "int4", FALSE, FALSE)>>,
                  <<"id">>, <<Fk(<<"a_id">>, "a", <<"id">>)>>, <<>>)]]

\* labels(id) and items(id, kind)
ItemsSchema ==
  [order |-> <<"labels", "items">>,
   tables |->
     [labels |-> Table("labels", <<Col("id", "int4", FALSE, TRUE)>>, <<"id">>, <<>>, <<>>),
      items |-> Table("items",
                      <<Col("id", "int4", FALSE, TRUE), Col("kind", "text", FALSE, FALSE)>>,
                      <<"id">>, <<>>, <<>>)]]

\* one entry of a weight map
Weight(key, w) == [key |-> key, w |-> w]

\* documents on which plan building or row synthesis can fail: a cycle, a
\* per-parent entry that matches no foreign key, and items.kind picked from
\* an empty list or by a weight map whose total is 0
FailInputs ==
  {[schema |-> CycleSchema,
    scenario |-> [seed |-> Some(Seed), order |-> <<"a", "b">>,
                  tables |-> [a |-> Modes(Some(1), Absent, Absent),
                              b |-> Modes(Some(1), Absent, Absent)]]]}
  \cup {d \in LinkInputs :
          /\ "offices" \in DOMAIN d.scenario.tables
          /\ d.scenario.tables["regions"].count = Some(1)
          /\ Get(d.scenario.tables["staff"].perParent).parent = "offices"
          /\ Get(d.scenario.tables["staff"].perParent).min = MaxPer}
  \cup {[schema |-> ItemsSchema,
         scenario |->
           [seed |-> Some(Seed), order |-> <<"labels", "items">>,
            tables |->
              [labels |-> Modes(Some(nl), Absent, Absent),
               items |-> [Modes(Some(n), Absent, Absent) EXCEPT
                            !.columns = cd[1], !.distributions = cd[2]]]]] :
          nl \in 1..MaxCount, n \in 0..MaxCount,
          cd \in {<<[kind |-> Override(Absent, Some(<<>>), Absent)], <<>>>>,
                  <<[kind |-> Override(Absent, Some(<<Str("x")>>), Absent)], <<>>>>,
                  <<<<>>, [kind |-> <<>>]>>,
                  <<<<>>, [kind |-> <<Weight("x", 0), Weight("y", 0)>>]>>,
                  <<<<>>, [kind |-> <<Weight("x", 0), Weight("y", 1)>>]>>}}

CliInputs == Inputs \cup FailInputs

InitCli == Start(CliInputs, {FirstClock}, FALSE)

\* mutant: the data gathered so far is emitted also after an Error
CanEmitPartial == pc \in {"done", "failed"}

\* generate.ts line 142: generateRows has returned its data
CanEmit == pc = "done"

\* emitSql(schema, data, plan.tableOrder): one block per table of tableOrder
\* that has data, in that order (emit_sql.ts is not among the sources)
emitSql(d, tableOrder) ==
  LET present == SelectSeq(tableOrder, LAMBDA t : t \in DOMAIN d)
  IN [i \in 1..Len(present) |-> [table |-> present[i], rows |-> d[present[i]]]]

\* generate.ts lines 142-153: the returned data is received, turned into SQL
\* and written to the file or printed
EmitSql ==
  /\ CanEmit
  /\ pc' = "emitted"
  /\ out' = [data |-> data, returned |-> TRUE, sql |-> emitSql(data, plan.tableOrder),
             written |-> TRUE, exit |-> 0]
  /\ UNCHANGED <<call, fx, topo, inp, now, plan, rowCounts, pidx, data, primaryKeys, gidx, cur,
                 err, warnings, rngv, first>>

\* generate.ts lines 62-65: the Error is reported and the process exits
Exit ==
  /\ pc = "failed"
  /\ pc' = "exited"
  /\ out' = [out EXCEPT !.exit = 1]
  /\ UNCHANGED <<call, fx, topo, inp, now, plan, rowCounts, pidx, data, primaryKeys, gidx, cur,
                 err, warnings, rngv, first>>

NextCli == Next \/ EmitSql \/ Exit

SpecCli == InitCli /\ [][NextCli]_vars

\* C12: if plan building or row synthesis fails for any table (cycle, missing
\* count mode, FK mismatch, non-positive weight total, pick from an empty
\* list), the whole run aborts: no generated data is returned for any table,
\* including tables that were already synthesized, and no SQL is written or
\* printed.
C12_FailureAborts ==
  /\ err # "" =>
       /\ pc \in {"failed", "exited"}
       /\ ~out.returned /\ out.data = <<>>
       /\ ~out.written /\ out.sql = <<>>
  /\ pc = "exited" => err # "" /\ out.exit = 1
  /\ out.returned =>
       /\ err = ""
       /\ DOMAIN out.data = Range(plan.tableOrder)

\* row synthesis failed at its second table (a weight map of total 0) after
\* the rows of the first were complete, and the process has exited
C12_Witness ==
  /\ pc = "exited" /\ err = "EmptyWeightMap"
  /\ "labels" \in DOMAIN data /\ Len(data["labels"]) = MaxCount
  /\ out.data = <<>> /\ out.sql = <<>>

(***************************************************************************)
(* generateSingleRow on single tables in count mode.  The draws rng()      *)
(* returns are recorded, so that the number of draws a run made is known.  *)
(***************************************************************************)
\* things(id, kind): kind may carry any combination of a fixed, a one-of and
\* a range override, a distribution and an enum value list
ThingsSchema(enumValues) ==
  [order |-> <<"things">>,
   tables |->
     [things |->
        Table("things",
              <<Col("id", "int4", FALSE, TRUE),
                [Col("kind", "int4", FALSE, FALSE) EXCEPT !.enumValues = enumValues]>>,
              <<"id">>, <<>>, <<>>)]]

ThingsInputs ==
  {[schema |-> ThingsSchema(enumValues),
    scenario |->
      [seed |-> Some(Seed), order |-> <<"things">>,
       tables |->
         [things |-> [Modes(Some(n), Absent, Absent) EXCEPT
                        !.columns = columns, !.distributions = distributions]]]] :
     n \in 1..MaxCount,
     enumValues \in {<<>>, <<Str("e1"), Str("e2")>>},
     distributions \in {<<>>, [kind |-> <<Weight("x", 1), Weight("y", 3)>>]},
     columns \in {<<>>} \cup
       {[kind |-> Override(fixed, oneOf, range)] :
          fixed \in {Absent, Some(Num(7))},
          oneOf \in {Absent, Some(<<Str("p"), Str("q")>>)},
          range \in {Absent, Some([min |-> 5, max |-> 6])}}}

\* a rule: the optional condition is a list of [key, expected] entries, the
\* assignments a list of [col, val] entries, both in insertion order
Cond(key, expected) == [key |-> key, expected |-> expected]
Assign(col, val) == [col |-> col, val |-> val]
Rule(if, set) == [if |-> if, set |-> set]

\* payments(id, amount), amount fixed to 5; the rule sets amount to 0 under
\* a condition that holds a dotted key, a column of the row, or both
PaymentsSchema ==
  [order |-> <<"payments">>,
   tables |->
     [payments |->
        Table("payments",
              <<Col("id", "int4", FALSE, TRUE), Col("amount", "int4", FALSE, FALSE)>>,
              <<"id">>, <<>>, <<>>)]]

PaymentsInputs ==
  {[schema |-> PaymentsSchema,
    scenario |->
      [seed |-> Some(Seed), order |-> <<"payments">>,
       tables |->
         [payments |-> [Modes(Some(n), Absent, Absent) EXCEPT
                          !.columns = [amount |-> Override(Some(Num(5)), Absent, Absent)],
                          !.rules = <<Rule(Some(if), <<Assign("amount", Num(0))>>)>>]]]] :
     n \in 1..MaxCount,
     if \in {<<Cond("invoice.status", Str("PAID"))>>,
             <<Cond("amount", Num(5)), Cond("invoice.status", Str("PAID"))>>,
             <<Cond("invoice.status", Str("PAID")), Cond("amount", Num(6))>>,
             <<Cond("amount", Num(5))>>,
             <<Cond("amount", Num(6))>>}}

\* notes(id, memo): either column nullable or not; memo without override
\* entry, with an entry holding only a null rate (in percent), or with a fixed
\* literal with or without a null rate
NotesSchema(idNullable, memoNullable) ==
  [order |-> <<"notes">>,
   tables |->
     [notes |->
        Table("notes",
              <<Col("id", "int4", idNullable, TRUE), Col("memo", "int4", memoNullable, FALSE)>>,
              <<"id">>, <<>>, <<>>)]]

NotesInputs ==
  {[schema |-> NotesSchema(idNullable, memoNullable),
    scenario |->
      [seed |-> Some(Seed), order |-> <<"notes">>,
       tables |->
         [notes |-> [Modes(Some(n), Absent, Absent) EXCEPT !.columns = columns]]]] :
     n \in 1..MaxCount, idNullable \in BOOLEAN, memoNullable \in BOOLEAN,
     columns \in {<<>>,
                  [memo |-> Override(Some(Num(7)), Absent, Absent)]}
                 \cup {[memo |-> [Override(fixed, Absent, Absent) EXCEPT !.nullRate = Some(rate)]] :
                         fixed \in {Absent, Some(Num(7))}, rate \in {0, 50, 100}}}

\* orders(id, status, memo, paid_at): status is fixed to PAID, memo and
\* paid_at are fixed to null; one rule assigns the reserved value to a column
OrdersSchema ==
  [order |-> <<"orders">>,
   tables |->
     [orders |->
        Table("orders",
              <<Col("id", "int4", FALSE, TRUE), Col("status", "text", FALSE, FALSE),
                Col("memo", "int4", TRUE, FALSE), Col("paid_at", "timestamptz", TRUE, FALSE)>>,
              <<"id">>, <<>>, <<>>)]]

OrdersInputs ==
  {[schema |-> OrdersSchema,
    scenario |->
      [seed |-> Some(Seed), order |-> <<"orders">>,
       tables |->
         [orders |-> [Modes(Some(n), Absent, Absent) EXCEPT
                        !.columns = [status |-> Override(Some(Str("PAID")), Absent, Absent),
                                     memo |-> Override(Some(Null), Absent, Absent),
                                     paid_at |-> Override(Some(Null), Absent, Absent)],
                        !.rules = <<Rule(if, <<Assign(target, Str("__AUTO_NOT_NULL__"))>>)>>]]]] :
     n \in 1..MaxCount,
     target \in {"id", "memo", "paid_at", "ghost"},
     if \in {Absent, Some(<<Cond("status", Str("PAID"))>>), Some(<<Cond("status", Str("OPEN"))>>)}}

\* jobs(id, state, zone): state is fixed to "new" and zone, the last column,
\* to 1; the rules are any list of up to MaxRules of the four of RulePool
MaxRules == 2

JobsSchema ==
  [order |-> <<"jobs">>,
   tables |->
     [jobs |->
        Table("jobs",
              <<Col("id", "serial", FALSE, TRUE), Col("state", "text", FALSE, FALSE),
                Col("zone", "int4", FALSE, FALSE)>>,
              <<"id">>, <<>>, <<>>)]]

RulePool ==
  {Rule(Some(<<Cond("state", Str("new"))>>), <<Assign("state", Str("run"))>>),
   Rule(Some(<<Cond("state", Str("run"))>>), <<Assign("state", Str("done"))>>),
   Rule(Absent, <<Assign("state", Str("held"))>>),
   Rule(Some(<<Cond("zone", Num(1))>>), <<Assign("state", Str("far"))>>)}

JobsInputs ==
  {[schema |-> JobsSchema,
    scenario |->
      [seed |-> Some(Seed), order |-> <<"jobs">>,
       tables |->
         [jobs |-> [Modes(Some(n), Absent, Absent) EXCEPT
                      !.columns = [state |-> Override(Some(Str("new")), Absent, Absent),
                                   zone |-> Override(Some(Num(1)), Absent, Absent)],
                      !.rules = rules]]]] :
     n \in 1..MaxCount, rules \in SeqsUpTo(RulePool, MaxRules)}

\* measures(id, amount): amount has one of the declared types and a range
\* override
MeasuresSchema(dbType) ==
  [order |-> <<"measures">>,
   tables |->
     [measures |->
        Table("measures",
              <<Col("id", "int4", FALSE, TRUE), Col("amount", dbType, FALSE, FALSE)>>,
              <<"id">>, <<>>, <<>>)]]

MeasureTypes ==
  {"int2", "smallint", "int4", "integer", "int", "int8", "bigint", "serial", "bigserial",
   "numeric"}

MeasuresInputs ==
  {[schema |-> MeasuresSchema(dbType),
    scenario |->
      [seed |-> Some(Seed), order |-> <<"measures">>,
       tables |->
         [measures |-> [Modes(Some(n), Absent, Absent) EXCEPT
                          !.columns = [amount |-> Override(Absent, Absent,
                                                           Some([min |-> 1, max |-> 3]))]]]]] :
     n \in 1..MaxCount, dbType \in MeasureTypes}

\* ledger(id, note), both NOT NULL: note may be fixed to null by an override
\* and may be assigned null by an unconditional rule
LedgerSchema ==
  [order |-> <<"ledger">>,
   tables |->
     [ledger |->
        Table("ledger",
              <<Col("id", "int4", FALSE, TRUE), Col("note", "int4", FALSE, FALSE)>>,
              <<"id">>, <<>>, <<>>)]]

LedgerInputs ==
  {[schema |-> LedgerSchema,
    scenario |->
      [seed |-> Some(Seed), order |-> <<"ledger">>,
       tables |->
         [ledger |-> [Modes(Some(n), Absent, Absent) EXCEPT
                        !.columns = columns, !.rules = rules]]]] :
     n \in 1..MaxCount,
     columns \in {<<>>, [note |-> Override(Some(Null), Absent, Absent)]},
     rules \in {<<>>, <<Rule(Absent, <<Assign("note", Null)>>)>>}}

RowInputs ==
  ThingsInputs \cup PaymentsInputs \cup NotesInputs \cup OrdersInputs \cup JobsInputs
    \cup MeasuresInputs \cup LedgerInputs

InitRow == Start(RowInputs, {FirstClock}, TRUE)

NextRow ==
  \/ StartPlan \/ PlanStep \/ FinishPlan
  \/ BeginTable \/ GenRowCount \/ EndTable \/ FinishGen

SpecRow == InitRow /\ [][NextRow]_vars

\* the number of values rng() has returned in this run
DrawsMade == Len(rngv.rtape)

\* the source the priority order selects for a column of table t: the first
\* of fixed, oneOf, range, distribution, enum, default that is configured
SourceOf(t, col) ==
  LET ts == inp.scenario.tables[t]
      ov == Lookup(ts.columns, col.name)
  IN IF Has(ov) /\ Has(Get(ov).fixed) THEN "fixed"
     ELSE IF Has(ov) /\ Has(Get(ov).oneOf) THEN "oneOf"
     ELSE IF Has(ov) /\ Has(Get(ov).range) THEN "range"
     ELSE IF Has(Lookup(ts.distributions, col.name)) THEN "distribution"
     ELSE IF Len(col.enumValues) > 0 THEN "enum"
     ELSE "default"

\* the values a source can yield for the column kind of things
ThingsValues(source, col) ==
  CASE source = "fixed" -> {Num(7)}
    [] source = "oneOf" -> {Str("p"), Str("q")}
    [] source = "range" -> {Num(5), Num(6)}
    [] source = "distribution" -> {Str("x"), Str("y")}
    [] source = "enum" -> Range(col.enumValues)
    [] OTHER -> {Num(k) : k \in {1, 25001, 50001, 75001}}

\* C13: the base value of every column is chosen by the first applicable
\* source in the fixed order fixed-literal override, one-of override,
\* numeric-range override, declared distribution, native enum value list,
\* type-driven default generator; a lower-priority source is never consulted
\* (and draws nothing from the RNG) when a higher-priority one applies.
C13_SourcePriority ==
  (Done /\ "things" \in DOMAIN data) =>
    LET kind == inp.schema.tables["things"].columns[2]
        source == SourceOf("things", kind)
    IN /\ \A i \in 1..Len(data["things"]) :
            /\ RowGet(data["things"][i], "kind") \in ThingsValues(source, kind)
            /\ RowGet(data["things"][i], "id") = Num(i)
       /\ DrawsMade = Len(data["things"]) * (IF source = "fixed" THEN 0 ELSE 1)

\* every source is configured at once and the fixed literal is what the rows
\* hold, no draw made
C13_Witness ==
  /\ Done /\ "things" \in DOMAIN data
  /\ Len(data["things"]) = MaxCount
  /\ Has(Lookup(inp.scenario.tables["things"].columns, "kind"))
  /\ Has(Get(Lookup(inp.scenario.tables["things"].columns, "kind")).fixed)
  /\ Has(Get(Lookup(inp.scenario.tables["things"].columns, "kind")).range)
  /\ Has(Lookup(inp.scenario.tables["things"].distributions, "kind"))
  /\ RowGet(data["things"][1], "kind") = Num(7)
  /\ DrawsMade = 0

\* the condition of the rule holds a dotted (cross-table) key
HasDottedKey(rule) ==
  Has(rule.if) /\ \E i \in 1..Len(Get(rule.if)) : IncludesDot(Get(rule.if)[i].key)

\* C14: a rule whose condition contains a dotted (cross-table) key such as
\* `invoice.status` never matches any row, so none of its assignments is ever
\* applied.  (payments.amount is fixed to 5 and only the rule assigns it.)
C14_DottedNeverMatches ==
  (/\ Done /\ ValidDocument /\ "payments" \in DOMAIN data
   /\ \A r \in 1..Len(inp.scenario.tables["payments"].rules) :
        HasDottedKey(inp.scenario.tables["payments"].rules[r]))
    => \A i \in 1..Len(data["payments"]) : RowGet(data["payments"][i], "amount") = Num(5)

\* C15: in m2m mode, whenever the right-side table has fewer generated rows
\* than the count requested for some left row, the request is capped at the
\* pool size, generation does not fail, and a warning is emitted.
C15_CapWarns ==
  (Done /\ ValidDocument) =>
    \A t \in DOMAIN data :
      ModeOf(t) = "m2m" =>
        LET tp == plan.tablePlans[t]
            lefts == RowsOf(tp.leftTable)
            rights == RowsOf(tp.rightTable)
            links(l) == {j \in 1..Len(data[t]) :
                           ValuesAt(data[t][j], tp.leftFk)
                             = ValuesAt(lefts[l], PkColumns(tp.leftTable))}
        IN \A l \in 1..Len(lefts) :
             CountAt(tp.perLeftCounts, l - 1) > Len(rights) =>
               /\ Cardinality(links(l)) = Len(rights)
               /\ Includes(warnings, tp.rightTable)

\* the row count table p was resolved to, 0 when it has no plan
ResolvedRows(p) ==
  IF p \in DOMAIN plan.tablePlans THEN plan.tablePlans[p].rowCount ELSE 0

\* the list has n entries, each within [min, max], and total is their sum
CountsWithin(counts, n, min, max, total) ==
  /\ Len(counts) = n
  /\ \A i \in 1..Len(counts) : counts[i] \in min..max
  /\ total = SumSeq(counts)

LookedUp(t) ==
  CASE plan.tablePlans[t].mode = "perParent" -> {plan.tablePlans[t].parentTable}
    [] plan.tablePlans[t].mode = "m2m" -> {plan.tablePlans[t].leftTable}
    [] OTHER -> {}

\* C17: whenever buildPlan looks up the resolved row count of a perParent
\* parent table (or of an m2m left table) and finds none, so that it falls
\* back to 0, that table is outside the set of scenario tables being planned;
\* equivalently, every parent that is itself in the scenario has had its row
\* count resolved before any table naming it as parent is processed.
C17_ParentResolvedFirst ==
  ValidDocument =>
    \A t \in DOMAIN plan.tablePlans :
      \A p \in LookedUp(t) :
        Includes(plan.tableOrder, p) =>
          IndexOf(plan.tableOrder, p) < IndexOf(plan.tableOrder, t)

\* the draws the null-injection step makes for a column: the configured-rate
\* draw when the column is nullable and a null rate is configured, the
\* ambient draw when it is nullable, not a primary-key column and without
\* override entry
NullDraws(col, ov) ==
  IF col.isNullable /\ ((Has(ov) /\ Has(Get(ov).nullRate)) \/ (~Has(ov) /\ ~col.isPrimaryKey))
    THEN 1 ELSE 0

\* C18: the null-injection step replaces a column's base value by null only
\* if the column is nullable; the configured-rate draw is used only when a
\* null rate is configured, and the ambient 5% draw is made only for columns
\* that are nullable, not primary-key columns, and have no override entry of
\* any kind (an override entry, even one holding only a null rate,
\* suppresses ambient nulls).
C18_NullInjection ==
  (Done /\ "notes" \in DOMAIN data) =>
    LET id == inp.schema.tables["notes"].columns[1]
        memo == inp.schema.tables["notes"].columns[2]
        ov == Lookup(inp.scenario.tables["notes"].columns, "memo")
        rows == data["notes"]
    IN /\ \A i \in 1..Len(rows) :
            /\ RowGet(rows[i], "id") = Num(i)
            /\ RowGet(rows[i], "memo") = Null => memo.isNullable
            /\ (Has(ov) /\ Get(ov).nullRate \in {Absent, Some(0)}) => RowGet(rows[i], "memo") # Null
            /\ (Has(ov) /\ Get(ov).nullRate = Some(100) /\ memo.isNullable)
                 => RowGet(rows[i], "memo") = Null
       /\ DrawsMade = Len(rows) * ((IF SourceOf("notes", memo) = "fixed" THEN 0 ELSE 1)
                                   + NullDraws(id, Absent) + NullDraws(memo, ov))

\* a nullable key and a nullable memo without override entry: the ambient
\* draw turned the first memo into null and left the second, two draws a row
C18_Witness ==
  /\ Done /\ "notes" \in DOMAIN data
  /\ inp.schema.tables["notes"].columns[1].isNullable
  /\ inp.schema.tables["notes"].columns[2].isNullable
  /\ inp.scenario.tables["notes"].columns = <<>>
  /\ Len(data["notes"]) >= 2
  /\ RowGet(data["notes"][1], "memo") = Null
  /\ RowGet(data["notes"][2], "memo") # Null
  /\ DrawsMade = 2 * Len(data["notes"])

\* v is a value the type-driven default generator yields for a column that
\* is not treated as a primary key: a whole number of the type's range for
\* int4, an instant for a timestamp type
TypeDefault(col, v) ==
  CASE ToLowerCase(col.dbType) = "int4" ->
         v.k = "num" /\ v.f = 0 /\ v.v >= DefaultMin /\ v.v <= DefaultMax
    [] ToLowerCase(col.dbType) = "timestamptz" -> v.k = "timestamp"
    [] OTHER -> FALSE

\* C19: when a rule matches a row and assigns the reserved value
\* `__AUTO_NOT_NULL__` to a column that exists in the table schema, the column
\* receives a freshly generated non-null value from the type-driven default
\* generator (never the reserved string itself and never null), also when
\* the column is a primary-key column.
C19_AutoNotNull ==
  (Done /\ "orders" \in DOMAIN data) =>
    LET rule == inp.scenario.tables["orders"].rules[1]
        target == rule.set[1].col
        col == ColumnOf(inp.schema.tables["orders"], target)
        matches == rule.if \in {Absent, Some(<<Cond("status", Str("PAID"))>>)}
        rows == data["orders"]
    IN (matches /\ Has(col)) =>
         /\ \A i \in 1..Len(rows) :
              /\ RowGet(rows[i], target) \notin {Null, Undef, Str("__AUTO_NOT_NULL__")}
              /\ TypeDefault(Get(col), RowGet(rows[i], target))
         /\ DrawsMade = Len(rows) * (IF ToLowerCase(Get(col).dbType) = "int4" THEN 1 ELSE 0)

\* the rule's condition holds and its target is the key column: the key of
\* the first row is a drawn number, not the row's position
C19_Witness ==
  /\ Done /\ "orders" \in DOMAIN data
  /\ inp.scenario.tables["orders"].rules[1].if = Some(<<Cond("status", Str("PAID"))>>)
  /\ inp.scenario.tables["orders"].rules[1].set[1].col = "id"
  /\ RowGet(data["orders"][1], "id") = Num(25001)
  /\ DrawsMade = Len(data["orders"])

\* the condition of a rule of jobs holds for a row whose state is st (zone
\* is 1 in every row)
HoldsFor(rule, st) ==
  ~Has(rule.if) \/
    \A i \in 1..Len(Get(rule.if)) :
      \/ Get(rule.if)[i].key = "state" /\ Get(rule.if)[i].expected = st
      \/ Get(rule.if)[i].key = "zone" /\ Get(rule.if)[i].expected = Num(1)

\* the state of a row after the first k rules, taken in declaration order,
\* each condition evaluated on the state the rules before it left
RECURSIVE StateAfter(_, _, _)
StateAfter(rules, k, base) ==
  IF k = 0 THEN base
  ELSE LET before == StateAfter(rules, k - 1, base)
       IN IF HoldsFor(rules[k], before) THEN rules[k].set[1].val ELSE before

\* C20: scenario rules are applied to each row in declaration order after all
\* columns are resolved, each rule's condition being evaluated against the
\* row as already modified by the rules before it; when two matching rules
\* assign the same column, the later rule's value is the one left in the row.
C20_RulesInOrder ==
  (Done /\ "jobs" \in DOMAIN data) =>
    LET rules == inp.scenario.tables["jobs"].rules IN
    \A i \in 1..Len(data["jobs"]) :
      /\ RowGet(data["jobs"][i], "state") = StateAfter(rules, Len(rules), Str("new"))
      /\ RowGet(data["jobs"][i], "zone") = Num(1)
      /\ RowGet(data["jobs"][i], "id") = Num(i)

\* the second rule matches only because the first has changed the state
C20_Witness ==
  /\ Done /\ "jobs" \in DOMAIN data
  /\ Len(inp.scenario.tables["jobs"].rules) = 2
  /\ inp.scenario.tables["jobs"].rules[1].if = Some(<<Cond("state", Str("new"))>>)
  /\ inp.scenario.tables["jobs"].rules[2].if = Some(<<Cond("state", Str("run"))>>)
  /\ Len(data["jobs"]) = MaxCount
  /\ \A i \in 1..Len(data["jobs"]) : RowGet(data["jobs"][i], "state") = Str("done")

(***************************************************************************)
(* Emission order of toposort                                              *)
(***************************************************************************)
\* the tables of the list that t depends on
DepsOf(s, t) == {e.to : e \in {d \in DepEdges(s) : d.from = t}}

DepFree(s) == {t \in Range(s.tables) : DepsOf(s, t) = {}}

Dependent(s) == Range(s.tables) \ DepFree(s)

\* position in the result of the dependency of t that was emitted last
LastDepPos(s, t) ==
  CHOOSE p \in 1..Len(s.result) :
     /\ \E d \in DepsOf(s, t) : IndexOf(s.result, d) = p
     /\ \A d \in DepsOf(s, t) : IndexOf(s.result, d) <= p

KeyOfRow(t, row) ==
  IF Len(PkColumns(t)) = 1 THEN RowGet(row, PkColumns(t)[1])
  ELSE Arr(ValuesAt(row, PkColumns(t)))

\* C22: the key list of every generated table has one entry per row, in row
\* order; the entry is the value of the key column of the stored row (the row
\* after foreign-key assignment) for a single-column key and the tuple of its
\* key-column values in declared order for a composite key.
C22_RecordedKeys ==
  Done =>
    \A t \in DOMAIN data :
       /\ Len(PksOf(primaryKeys, t)) = Len(data[t])
       /\ Len(PkColumns(t)) >= 1 =>
            \A i \in 1..Len(data[t]) : primaryKeys[t][i] = KeyOfRow(t, data[t][i])

\* two users of the same organization, the organization being part of the key
C22_Witness ==
  /\ Done
  /\ "users" \in DOMAIN data
  /\ PkColumns("users") = <<"id", "org_id">>
  /\ ModeOf("users") = "perParent"
  /\ Len(data["users"]) >= 2
  /\ primaryKeys["users"][2] = Arr(<<Num(2), Num(1)>>)

(***************************************************************************)
(* parseCheckConstraint called on its own, one conjunct at a time          *)
(***************************************************************************)
MaxParts == 3

\* the conjuncts of the expressions: every range clause on qty with the
\* values 1 and 2, one clause on another column, one relational clause
CheckParts ==
  {RangePart("qty", op, v) : op \in {">=", ">", "<=", "<", "="}, v \in {1, 2}}
    \cup {RangePart("price", ">=", 1), RelPart("qty", "<=", "price")}

InitCheck ==
  /\ topo = TopoUnused
  /\ PipeIdle
  /\ fx = <<>>
  /\ \E expression \in SeqsUpTo(CheckParts, MaxParts) :
       call = [fn |-> "parseCheckConstraint", expression |-> expression, i |-> 1,
               ranges |-> <<>>, relational |-> <<>>, pc |-> "parse"]

\* lines 106-163: the loop body for one conjunct
ParsePart ==
  /\ call.pc = "parse" /\ call.i <= Len(call.expression)
  /\ LET r == ParseParts(<<call.expression[call.i]>>, call.ranges, call.relational)
     IN call' = [call EXCEPT !.ranges = r.ranges, !.relational = r.relational, !.i = @ + 1]
  /\ UNCHANGED <<topo, pipeVars, fx>>

\* line 165
ParseReturn ==
  /\ call.pc = "parse" /\ call.i > Len(call.expression)
  /\ call' = [call EXCEPT !.pc = "parsed"]
  /\ UNCHANGED <<topo, pipeVars, fx>>

NextCheck == ParsePart \/ ParseReturn

SpecCheck == InitCheck /\ [][NextCheck]_vars

\* the range clauses of the expression on a column with one of the operators
ClausesOn(column, ops) ==
  {p \in Range(call.expression) : p.shape = "range" /\ p.column = column /\ p.operator \in ops}

Largest(S) == CHOOSE x \in S : \A y \in S : y <= x

Smallest(S) == CHOOSE x \in S : \A y \in S : x <= y

\* C23: for a column with lower-bound clauses (>= or >) and no = clause the
\* parsed minimum is the largest of their values, and for a column with
\* upper-bound clauses (<= or <) and no = clause the parsed maximum is the
\* smallest of their values, whatever the order of the clauses.
C23_TightestBound ==
  call.pc = "parsed" =>
    \A k \in 1..Len(call.ranges) :
       LET b == call.ranges[k]
           lows == ClausesOn(b.column, {">=", ">"})
           ups == ClausesOn(b.column, {"<=", "<"})
       IN ClausesOn(b.column, {"="}) = {} =>
            /\ lows # {} => b.min = Some(Largest({p.value : p \in lows}))
            /\ ups # {} => b.max = Some(Smallest({p.value : p \in ups}))

(***************************************************************************)
(* weightedPick called on its own                                          *)
(***************************************************************************)
MaxWeight == 2

WeightKeys == {"x", "y", "z"}

\* the weight maps: up to three distinct keys in insertion order, each with a
\* weight in 0..MaxWeight
WeightMaps ==
  {m \in SeqsUpTo([key : WeightKeys, w : 0..MaxWeight], Cardinality(WeightKeys)) :
     \A i, j \in 1..Len(m) : i # j => m[i].key # m[j].key}

InitPick ==
  /\ topo = TopoUnused
  /\ PipeIdle
  /\ fx = <<>>
  /\ \E weights \in WeightMaps, d \in Draws :
       call = [fn |-> "weightedPick", weights |-> weights, d |-> d, pc |-> "call",
               result |-> Undef]

\* lines 50-52: the total is not positive
WeightedThrow ==
  /\ call.pc = "call"
  /\ ~weightedPick(call.d, call.weights).ok
  /\ call' = [call EXCEPT !.pc = "thrown"]
  /\ UNCHANGED <<topo, pipeVars, fx>>

\* lines 54-63: a key is returned
WeightedReturn ==
  /\ call.pc = "call"
  /\ weightedPick(call.d, call.weights).ok
  /\ call' = [call EXCEPT !.pc = "returned",
                          !.result = weightedPick(call.d, call.weights).v]
  /\ UNCHANGED <<topo, pipeVars, fx>>

NextPick == WeightedThrow \/ WeightedReturn

SpecPick == InitPick /\ [][NextPick]_vars

KeysOf(weights) == {weights[i].key : i \in 1..Len(weights)}

WeightOf(weights, key) == weights[CHOOSE i \in 1..Len(weights) : weights[i].key = key].w

\* C24: weightedPick throws and returns no key when the total of the weights
\* is not positive, and returns a key of the map when it is positive.
C24_ThrowsOrPicksKey ==
  call.pc \in {"thrown", "returned"} =>
    IF SumWeights(call.weights) <= 0
      THEN call.pc = "thrown" /\ call.result = Undef
      ELSE /\ call.pc = "returned"
           /\ \E key \in KeysOf(call.weights) : call.result = Str(key)

\* a non-empty map whose weights are all 0 has been rejected
C24_Witness ==
  /\ call.pc = "thrown"
  /\ Len(call.weights) = 2
  /\ call.d > 0

\* C28: the key weightedPick returns has a positive weight.
C28_NoZeroWeightKey ==
  call.pc = "returned" =>
    \A key \in KeysOf(call.weights) :
       call.result = Str(key) => WeightOf(call.weights, key) > 0

(***************************************************************************)
(* Range overrides on integer columns                                      *)
(***************************************************************************)
\* a whole number between min and max
IntegerWithin(x, range) ==
  /\ IsNumber(x) /\ x.f = 0
  /\ range.min <= x.v /\ x.v <= range.max

\* C25: a column of an integer-family type whose value comes from a range
\* override (no fixed or one-of override above it, no rule assigning it, not
\* nullable) holds a whole number within [min, max] in every row.
C25_RangeIsInteger ==
  Done =>
    \A t \in DOMAIN data :
      \A c \in 1..Len(inp.schema.tables[t].columns) :
        LET col == inp.schema.tables[t].columns[c] IN
        (/\ SourceOf(t, col) = "range"
         /\ IntegerFamily(col.dbType)
         /\ ~col.isNullable
         /\ NoRuleSets(t, col.name)
         /\ NotLinkColumn(t, col.name))
          => \A i \in 1..Len(data[t]) :
               IntegerWithin(RowGet(data[t][i], col.name),
                             Get(Get(Lookup(inp.scenario.tables[t].columns, col.name)).range))

(***************************************************************************)
(* Planned and generated row counts                                        *)
(***************************************************************************)
\* C26: when generateRows has returned, every table of the plan holds as
\* many rows as the rowCount the plan records for it.
C26_RowsMatchPlan ==
  Done =>
    \A k \in 1..Len(plan.tableOrder) :
       Len(RowsOf(plan.tableOrder[k])) = plan.tablePlans[plan.tableOrder[k]].rowCount

(***************************************************************************)
(* Nulls in NOT NULL columns                                               *)
(***************************************************************************)
\* C27: when generateRows has returned, no row of a scenario that passes the
\* scenario validation holds null in a column the schema declares
\* non-nullable.
C27_NoNullInNotNull ==
  (Done /\ ValidDocument) =>
    \A t \in DOMAIN data :
      \A i \in 1..Len(data[t]) :
        \A c \in 1..Len(inp.schema.tables[t].columns) :
          ~inp.schema.tables[t].columns[c].isNullable
            => RowGet(data[t][i], inp.schema.tables[t].columns[c].name) # Null

(***************************************************************************)
(* One repair pass over jointly satisfiable constraints                    *)
(***************************************************************************)
\* lines 290-327: the whole loop of fixRelationalConstraints
RECURSIVE fixRelationalConstraints(_, _)
fixRelationalConstraints(row, constraints) ==
  IF constraints = <<>> THEN row
  ELSE fixRelationalConstraints(FixOne(row, Head(constraints)), Tail(constraints))

\* some assignment of numbers to the columns satisfies every constraint
JointlySatisfiable(constraints) ==
  \E a \in [FixColumns -> 0..Cardinality(FixColumns)] :
    \A k \in 1..Len(constraints) :
      Satisfied(Num(a[constraints[k].leftColumn]), constraints[k].operator,
                Num(a[constraints[k].rightColumn]))

\* C29: after one pass of fixRelationalConstraints over a row of numbers and
\* a jointly satisfiable list of <=, >=, < and > constraints the validator
\* reports no violation, and a second pass leaves the row as it is.
C29_OnePassSuffices ==
  (/\ fx.pc = "fixed"
   /\ \A c \in FixColumns : TypeofNumber(fx.orig[c])
   /\ \A k \in 1..Len(fx.constraints) : fx.constraints[k].operator \in {"<=", ">=", "<", ">"}
   /\ JointlySatisfiable(fx.constraints))
    => /\ fx.violations = <<>>
       /\ fixRelationalConstraints(fx.row, fx.constraints) = fx.row

(***************************************************************************)
(* pickNRandom called on its own, with a fair random source                *)
(***************************************************************************)
MaxPool == 3

\* the pools: up to MaxPool elements, equal elements allowed
Pools == SeqsUpTo({"p", "q"}, MaxPool)

InitSample ==
  /\ topo = TopoUnused
  /\ PipeIdle
  /\ fx = <<>>
  /\ \E arr \in Pools, n \in 0..MaxPool :
       call = [fn |-> "pickNRandom", arr |-> arr, n |-> n, pc |-> "call",
               c |-> [selected |-> <<>>, used |-> {}, phase |-> "call"],
               retried |-> FALSE]

\* lines 431-436: the early return, or the loop is entered
SampleEnter ==
  /\ call.pc = "call"
  /\ call' = [call EXCEPT !.pc = "loop", !.c = pickNRandomAll(call.c, call.arr, call.n)]
  /\ UNCHANGED <<topo, pipeVars, fx>>

\* lines 438-444: one iteration of the loop, with any draw
SampleDraw ==
  /\ call.pc = "loop" /\ call.c.phase = "pick"
  /\ \E d \in Draws :
       call' = [call EXCEPT !.c = pickNRandomStep(call.c, call.arr, call.n, d),
                            !.retried = @ \/ ((d * Len(call.arr)) \div RngDen) \in call.c.used]
  /\ UNCHANGED <<topo, pipeVars, fx>>

\* lines 436, 446
SampleReturn ==
  /\ call.pc = "loop" /\ call.c.phase = "emit"
  /\ call' = [call EXCEPT !.pc = "returned"]
  /\ UNCHANGED <<topo, pipeVars, fx>>

NextSample == SampleEnter \/ SampleDraw \/ SampleReturn

\* an iteration whose draw is an index not used before
SampleFresh == SampleDraw /\ call'.c.used # call.c.used

\* the program keeps running, and the random source does not return used
\* indices for ever
SpecSample ==
  InitSample /\ [][NextSample]_vars /\ WF_vars(NextSample) /\ WF_vars(SampleFresh)

\* the result holds the elements at n distinct indices of the pool, the
\* indices that were marked used
TakenFromDistinct ==
  /\ Len(call.c.selected) = call.n
  /\ Cardinality(call.c.used) = call.n
  /\ \E f \in [1..call.n -> call.c.used] :
       /\ \A i, j \in 1..call.n : i # j => f[i] # f[j]
       /\ \A i \in 1..call.n : call.c.selected[i] = call.arr[f[i] + 1]

\* C30: a call of pickNRandom with n smaller than the pool size eventually
\* returns, given a fair random source, and what it returns is exactly n
\* elements taken from n distinct indices of the pool.
C30_SamplingTerminates ==
  /\ []((call.pc = "returned" /\ call.n < Len(call.arr)) => TakenFromDistinct)
  /\ (call.pc = "call" /\ call.n < Len(call.arr)) ~> (call.pc = "returned")

\* a call that returned two of three elements after a rejected draw
C30_Witness ==
  /\ call.pc = "returned"
  /\ Len(call.arr) = 3 /\ call.n = 2
  /\ call.retried
  /\ TakenFromDistinct

====
